---- MODULE Spec2Model ----
(***************************************************************************)
(* A model of the limitless-sdk transport layer:                           *)
(*   - retry_on_rate_limit, the retry decorator of limitless_sdk/client.py *)
(*   - retry_on_errors, the configurable retry decorator of                *)
(*     limitless_sdk/api/retry.py (its observable contract)                *)
(*   - HttpClient of limitless_sdk/api/http_client.py                      *)
(*   - the session handling of LimitlessClient                             *)
(***************************************************************************)
EXTENDS Integers, Sequences, FiniteSets, TLC

VARIABLES
    cfgMaxRetries,   \* max_retries of the decorator
    cfgDelays,       \* delays of the decorator
    cfgStatusCodes,  \* status_codes of retry_on_errors ({429} for retry_on_rate_limit)
    wpc,             \* position of the wrapper coroutine
    attempt,         \* loop variable of the retry loop
    lastException,   \* last_exception
    delay,           \* delay, the wait chosen for the coming retry
    events,          \* what the wrapper has done so far: calls, sleeps, observer calls
    outcome,         \* how the wrapped call ended
    hSessions,       \* HttpClient: the ClientSession objects created so far (TRUE: closed)
    hCur,            \* HttpClient._session: an index into hSessions, 0 for None
    hCtx,            \* HttpClient: where the caller's `async with` block stands
    hErr,            \* HttpClient: the error the last session operation raised ("" for none)
    hApiKey,         \* HttpClient._api_key ("" for None)
    hCredOp,         \* HttpClient: the key last given to set_api_key, "" if none or after clear_api_key
    hGlobal,         \* HttpClient._additional_headers
    hLast,           \* HttpClient: the last request, what was sent and how it ended
    hLog,            \* HttpClient: the header values that appeared in log records so far
    lSessions,       \* LimitlessClient: the ClientSession objects created so far (TRUE: closed)
    lCur,            \* LimitlessClient.session: an index into lSessions, 0 for None
    lHeaders,        \* LimitlessClient: the token in each session's Authorization header, 0 for none
    lCtx,            \* LimitlessClient: where the caller's `async with` block stands
    lErr,            \* LimitlessClient: the error the last session operation raised
    signing_message, \* LimitlessClient.signing_message: a challenge number, 0 for None
    auth_token,      \* LimitlessClient.auth_token: a token number, 0 for None
    aIssued,         \* the challenges /auth/signing-message has issued so far
    aPosted,         \* the challenges POSTed to /auth/login by earlier calls, in order
    aCall,           \* the last call on the LimitlessClient: its requests, in order
    aRaised,         \* the status of the error the last call raised, 0 if it returned
    aRaisedCls,      \* the class of that error, "" if it returned
    vArgs,           \* orders package: the arguments of the call
    vResult,         \* orders package: what the call returned or raised
    ocVenues,        \* OrderClient: the venue cache, slug -> absent, in flight or resolved
    ocUserData,      \* OrderClient: the user data, absent, in flight, resolved or supplied
    ocNet,           \* OrderClient: the requests issued so far, in order, and their answers
    ocTask,          \* OrderClient: where each caller's create_order stands
    ocCalls,         \* OrderClient: the number of create_order calls made so far
    wsCfg,           \* WebSocketClient: its WebSocketConfig
    wsState,         \* WebSocketClient: its WebSocketState
    wsSocket,        \* WebSocketClient: the socket, open or closed
    wsSubs,          \* WebSocketClient: the subscription set
    wsFrames,        \* WebSocketClient: the subscribe frames sent on the open connection, per subscription
    wsReconnect,     \* WebSocketClient: the automatic reconnect: idle, waiting reconnect_delay, or attempting
    wsAttempts,      \* WebSocketClient: the reconnect attempts that have failed since the connection was lost
    wsLast,          \* WebSocketClient: the last operation, the state it happened in, and why the
                     \* connection was last given up ("" after connect() and disconnect())
    aTask,           \* LimitlessClient: where each concurrent caller's authenticated method stands
    rTask,           \* retry_on_rate_limit: where each concurrent call of one wrapped function stands
    hTask            \* HttpClient: where each concurrent caller's get, post, delete or close stands

retryVars == <<cfgMaxRetries, cfgDelays, cfgStatusCodes, wpc, attempt, lastException, delay, events, outcome>>

httpVars == <<hSessions, hCur, hCtx, hErr, hApiKey, hCredOp, hGlobal, hLast, hLog>>

lcVars == <<lSessions, lCur, lHeaders, lCtx, lErr>>

authVars == <<signing_message, auth_token, aIssued, aPosted, aCall, aRaised, aRaisedCls>>

valVars == <<vArgs, vResult>>

ocVars == <<ocVenues, ocUserData, ocNet, ocTask, ocCalls>>

wsVars == <<wsCfg, wsState, wsSocket, wsSubs, wsFrames, wsReconnect, wsAttempts, wsLast>>

taskVars == <<aTask, rTask, hTask>>

vars == <<retryVars, httpVars, lcVars, authVars, valVars, ocVars, wsVars, taskVars>>

\* ------------------------------------------------------------------ bounds

MaxRetriesBound == 2
MaxDelaysLen == 2
MaxSessions == 3
DelayValues == {5, 10}

\* ------------------------------------------------------------------ failures

\* A failure of the wrapped operation, by the attributes the wrapper reads:
\* its class, its status_code / status attribute (0: it has none), and
\* whether str(e) contains "429" and "Too Many Requests".
Err(k, s, a, b) == [kind |-> k, status |-> s, has429 |-> a, hasTMR |-> b]

NoError == Err("none", 0, FALSE, FALSE)

StatusKinds == {"RateLimitError", "ClientResponseError"}
TimeoutKinds == {"ServerTimeoutError", "TimeoutError"}

\* Errors that are no transport failures: ValidationError of the order
\* validator and the signer's error, both plain subclasses of Exception whose
\* message may quote any text (f"Invalid tokenId format: {token_id}").
NonTransportKinds == {"ValidationError", "SigningError"}

OperationErrors ==
    {Err(k, s, FALSE, FALSE) : k \in StatusKinds, s \in {429, 500}}
    \cup {Err(k, 0, FALSE, FALSE) : k \in TimeoutKinds}
    \cup {Err("Exception", 0, a, b) : a \in BOOLEAN, b \in BOOLEAN}
    \cup {Err(k, 0, a, a) : k \in NonTransportKinds, a \in BOOLEAN}

\* delays[-1] / delays[attempt] on an empty list
IndexError == Err("IndexError", 0, FALSE, FALSE)

\* What one invocation of the wrapped function does: it returns, or raises.
Ok == [ok |-> TRUE, err |-> NoError]
Fail(e) == [ok |-> FALSE, err |-> e]
OperationResults == {Ok} \cup {Fail(e) : e \in OperationErrors}

CallEvent(r) == [type |-> "call", ok |-> r.ok, err |-> r.err, delay |-> 0, attempt |-> 0]
SleepEvent(d) == [type |-> "sleep", ok |-> TRUE, err |-> NoError, delay |-> d, attempt |-> 0]
ObserveEvent(i, e, d) == [type |-> "on_retry", ok |-> TRUE, err |-> e, delay |-> d, attempt |-> i]

Returned == [kind |-> "return", err |-> NoError]
Raised(e) == [kind |-> "raise", err |-> e]
Pending == [kind |-> "pending", err |-> NoError]

\* ------------------------------------------------------------------ retry_on_rate_limit

\* Mutant: the timeout clause is missing, so a timeout is retried like a 429.
FirstAttemptHandler_TimeoutRetried(e) ==
    IF e.kind \in StatusKinds
    THEN (IF e.status # 429 THEN "raise" ELSE "retry")
    ELSE IF e.kind \in TimeoutKinds
    THEN "retry"
    ELSE IF e.has429 /\ e.hasTMR THEN "retry" ELSE "raise"

\* The except clauses after the first attempt: "retry" or "raise".
FirstAttemptHandler(e) ==
    IF e.kind \in StatusKinds
    THEN (IF e.status # 429 THEN "raise" ELSE "retry")
    ELSE IF e.kind \in TimeoutKinds
    THEN "raise"
    ELSE IF e.has429 /\ e.hasTMR THEN "retry" ELSE "raise"

\* Mutant: the status check is missing, so any typed failure is retried.
RetryAttemptHandler_NoStatusCheck(e) ==
    IF e.kind \in StatusKinds
    THEN "retry"
    ELSE IF e.kind \in TimeoutKinds
    THEN "raise"
    ELSE IF e.has429 /\ e.hasTMR THEN "retry" ELSE "raise"

\* The except clauses inside the retry loop.
RetryAttemptHandler(e) ==
    IF e.kind \in StatusKinds
    THEN (IF e.status # 429 THEN "raise" ELSE "retry")
    ELSE IF e.kind \in TimeoutKinds
    THEN "raise"
    ELSE IF e.has429 /\ e.hasTMR THEN "retry" ELSE "raise"

\* Mutant: the schedule is read one entry too far.
DelayFor_OffByOne(delays, i) ==
    IF i + 1 < Len(delays) THEN delays[i + 2] ELSE delays[Len(delays)]

\* delay = delays[attempt] if attempt < len(delays) else delays[-1]
\* (attempt is 0-based, sequences are 1-based); defined for a non-empty list.
DelayFor(delays, i) ==
    IF i < Len(delays) THEN delays[i + 1] ELSE delays[Len(delays)]

\* The decorator's arguments.
DelayLists == UNION {[1..n -> DelayValues] : n \in 0..MaxDelaysLen}

RetryInit ==
    /\ cfgMaxRetries \in 0..MaxRetriesBound
    /\ cfgDelays \in DelayLists
    /\ cfgStatusCodes = {429}
    /\ wpc = "first"
    /\ attempt = 0
    /\ lastException = NoError
    /\ delay = 0
    /\ events = <<>>
    /\ outcome = Pending

\* try: return await func(*args, **kwargs)   -- the first attempt
RL_FirstAttempt ==
    /\ wpc = "first"
    /\ \E r \in OperationResults :
        /\ events' = Append(events, CallEvent(r))
        /\ IF r.ok
           THEN /\ outcome' = Returned
                /\ wpc' = "done"
                /\ lastException' = lastException
           ELSE IF FirstAttemptHandler(r.err) = "raise"
           THEN /\ outcome' = Raised(r.err)
                /\ wpc' = "done"
                /\ lastException' = lastException
           ELSE /\ lastException' = r.err
                /\ wpc' = "loop"
                /\ outcome' = outcome
    /\ UNCHANGED <<cfgMaxRetries, cfgDelays, cfgStatusCodes, attempt, delay>>
    /\ UNCHANGED <<httpVars, lcVars, authVars, valVars, ocVars, wsVars, taskVars>>

\* for attempt in range(max_retries): delay = ...; await asyncio.sleep(delay)
RL_Sleep ==
    /\ wpc = "loop"
    /\ attempt < cfgMaxRetries
    /\ IF Len(cfgDelays) = 0
       THEN \* delays[-1] raises IndexError inside the try block, so the
            \* except clauses of the loop handle it like a failure of func
            /\ UNCHANGED <<events, delay>>
            /\ IF RetryAttemptHandler(IndexError) = "raise"
               THEN /\ outcome' = Raised(IndexError)
                    /\ wpc' = "done"
                    /\ UNCHANGED <<lastException, attempt>>
               ELSE /\ lastException' = IndexError
                    /\ attempt' = attempt + 1
                    /\ UNCHANGED <<wpc, outcome>>
       ELSE /\ delay' = DelayFor(cfgDelays, attempt)
            /\ events' = Append(events, SleepEvent(delay'))
            /\ wpc' = "slept"
            /\ UNCHANGED <<outcome, lastException, attempt>>
    /\ UNCHANGED <<cfgMaxRetries, cfgDelays, cfgStatusCodes>>
    /\ UNCHANGED <<httpVars, lcVars, authVars, valVars, ocVars, wsVars, taskVars>>

\* Mutant: the result of a successful retry is dropped and the earlier
\* failure is raised.
RL_RetryAttempt_RaisesLast ==
    /\ wpc = "slept"
    /\ \E r \in OperationResults :
        /\ events' = Append(events, CallEvent(r))
        /\ IF r.ok
           THEN /\ outcome' = Raised(lastException)
                /\ wpc' = "done"
                /\ UNCHANGED <<lastException, attempt>>
           ELSE IF RetryAttemptHandler(r.err) = "raise"
           THEN /\ outcome' = Raised(r.err)
                /\ wpc' = "done"
                /\ UNCHANGED <<lastException, attempt>>
           ELSE /\ lastException' = r.err
                /\ attempt' = attempt + 1
                /\ wpc' = "loop"
                /\ outcome' = outcome
    /\ UNCHANGED <<cfgMaxRetries, cfgDelays, cfgStatusCodes, delay>>
    /\ UNCHANGED <<httpVars, lcVars, authVars, valVars, ocVars, wsVars, taskVars>>

\* return await func(*args, **kwargs)   -- inside the retry loop
RL_RetryAttempt ==
    /\ wpc = "slept"
    /\ \E r \in OperationResults :
        /\ events' = Append(events, CallEvent(r))
        /\ IF r.ok
           THEN /\ outcome' = Returned
                /\ wpc' = "done"
                /\ UNCHANGED <<lastException, attempt>>
           ELSE IF RetryAttemptHandler(r.err) = "raise"
           THEN /\ outcome' = Raised(r.err)
                /\ wpc' = "done"
                /\ UNCHANGED <<lastException, attempt>>
           ELSE /\ lastException' = r.err
                /\ attempt' = attempt + 1
                /\ wpc' = "loop"
                /\ outcome' = outcome
    /\ UNCHANGED <<cfgMaxRetries, cfgDelays, cfgStatusCodes, delay>>
    /\ UNCHANGED <<httpVars, lcVars, authVars, valVars, ocVars, wsVars, taskVars>>

\* raise last_exception   -- all retries exhausted
RL_Exhausted ==
    /\ wpc = "loop"
    /\ attempt >= cfgMaxRetries
    /\ outcome' = Raised(lastException)
    /\ wpc' = "done"
    /\ UNCHANGED <<cfgMaxRetries, cfgDelays, cfgStatusCodes, attempt, lastException, delay, events>>
    /\ UNCHANGED <<httpVars, lcVars, authVars, valVars, ocVars, wsVars, taskVars>>

RetryNext == RL_FirstAttempt \/ RL_Sleep \/ RL_RetryAttempt \/ RL_Exhausted

\* ------------------------------------------------------------------ retry_on_errors

\* RetryConfig(exponential_base=..., max_delay=...)
ExponentialBase == 3
MaxDelay == 30

RECURSIVE Power(_, _)
Power(b, n) == IF n = 0 THEN 1 ELSE b * Power(b, n - 1)

Min(a, b) == IF a < b THEN a ELSE b

\* The failures retry_on_errors sees: an APIError with its status code, a
\* timeout, a generic exception with or without an embedded status marker.
ROE_OperationErrors ==
    {Err("APIError", s, FALSE, FALSE) : s \in {404, 429, 500}}
    \cup {Err("TimeoutError", 0, FALSE, FALSE)}
    \cup {Err("Exception", 0, a, a) : a \in BOOLEAN}

ROE_OperationResults == {Ok} \cup {Fail(e) : e \in ROE_OperationErrors}

\* Is the failure's status code (for a generic exception, its embedded
\* status marker) in the retryable set?  Timeouts never are.
ROE_ShouldRetry(codes, e) ==
    IF e.kind \in TimeoutKinds THEN FALSE
    ELSE IF e.kind = "APIError" THEN e.status \in codes
    ELSE e.has429 /\ e.hasTMR /\ 429 \in codes

\* The waits the schedule allows for attempt index i: the explicit list,
\* clamped to its last entry, or base^i capped at max_delay, +-20% jitter.
ROE_Delays(delays, i) ==
    IF Len(delays) > 0
    THEN {IF i < Len(delays) THEN delays[i + 1] ELSE delays[Len(delays)]}
    ELSE LET n == Min(Power(ExponentialBase, i), MaxDelay)
         IN  (n - n \div 5)..(n + n \div 5)

ROE_Init ==
    /\ cfgMaxRetries \in 0..MaxRetriesBound
    /\ cfgDelays \in DelayLists
    /\ cfgStatusCodes \in {{404}, {429, 500}}
    /\ wpc = "roe_call"
    /\ attempt = 0
    /\ lastException = NoError
    /\ delay = 0
    /\ events = <<>>
    /\ outcome = Pending

\* attempt the call; on failure decide between re-raising and retrying
ROE_Attempt ==
    /\ wpc = "roe_call"
    /\ \E r \in ROE_OperationResults :
        /\ events' = Append(events, CallEvent(r))
        /\ IF r.ok
           THEN /\ outcome' = Returned
                /\ wpc' = "done"
                /\ UNCHANGED <<lastException, delay>>
           ELSE IF ~ROE_ShouldRetry(cfgStatusCodes, r.err) \/ attempt >= cfgMaxRetries
           THEN /\ outcome' = Raised(r.err)
                /\ wpc' = "done"
                /\ lastException' = r.err
                /\ delay' = delay
           ELSE /\ lastException' = r.err
                /\ delay' \in ROE_Delays(cfgDelays, attempt)
                /\ wpc' = "roe_observe"
                /\ outcome' = outcome
    /\ UNCHANGED <<cfgMaxRetries, cfgDelays, cfgStatusCodes, attempt>>
    /\ UNCHANGED <<httpVars, lcVars, authVars, valVars, ocVars, wsVars, taskVars>>

\* Mutant: the observer is told the 1-based retry number.
ROE_Observe_OneBased ==
    /\ wpc = "roe_observe"
    /\ events' = Append(events, ObserveEvent(attempt + 1, lastException, delay))
    /\ wpc' = "roe_sleep"
    /\ UNCHANGED <<cfgMaxRetries, cfgDelays, cfgStatusCodes, attempt, lastException, delay, outcome>>
    /\ UNCHANGED <<httpVars, lcVars, authVars, valVars, ocVars, wsVars, taskVars>>

\* on_retry(attempt, error, delay), before the wait
ROE_Observe ==
    /\ wpc = "roe_observe"
    /\ events' = Append(events, ObserveEvent(attempt, lastException, delay))
    /\ wpc' = "roe_sleep"
    /\ UNCHANGED <<cfgMaxRetries, cfgDelays, cfgStatusCodes, attempt, lastException, delay, outcome>>
    /\ UNCHANGED <<httpVars, lcVars, authVars, valVars, ocVars, wsVars, taskVars>>

\* suspend for the delay, then retry
ROE_Sleep ==
    /\ wpc = "roe_sleep"
    /\ events' = Append(events, SleepEvent(delay))
    /\ attempt' = attempt + 1
    /\ wpc' = "roe_call"
    /\ UNCHANGED <<cfgMaxRetries, cfgDelays, cfgStatusCodes, lastException, delay, outcome>>
    /\ UNCHANGED <<httpVars, lcVars, authVars, valVars, ocVars, wsVars, taskVars>>

ROE_Next == ROE_Attempt \/ ROE_Observe \/ ROE_Sleep

\* ------------------------------------------------------------------ HttpClient

BaseUrl == "https://api.limitless.exchange"

\* A headers dict: a function from the header names it holds to their values.
EmptyHeaders == [k \in {} |-> ""]

\* d1.update(d2)
Update(d1, d2) ==
    [k \in DOMAIN d1 \cup DOMAIN d2 |-> IF k \in DOMAIN d2 THEN d2[k] ELSE d1[k]]

HeaderNames == {"X-API-Key", "Cookie", "Content-Type"}

\* k.lower()
Lower(k) ==
    CASE k = "X-API-Key" -> "x-api-key"
      [] k = "Cookie" -> "cookie"
      [] k = "Content-Type" -> "content-type"
      [] OTHER -> k

\* The headers a caller passes with one request, and those given to the
\* constructor: any subset of the header names, each with its own value.
RequestValue(k) ==
    CASE k = "X-API-Key" -> "key-of-request"
      [] k = "Cookie" -> "limitless_session=request"
      [] OTHER -> "text/plain"

GlobalValue(k) ==
    CASE k = "X-API-Key" -> "key-of-constructor"
      [] k = "Cookie" -> "limitless_session=constructor"
      [] OTHER -> "application/xml"

RequestHeaderDicts == {[k \in S |-> RequestValue(k)] : S \in SUBSET HeaderNames}
GlobalHeaderDicts == {[k \in S |-> GlobalValue(k)] : S \in SUBSET HeaderNames}

ApiKeys == {"key1"}

\* The keys a client is switched between.
SwappedKeys == {"key1", "key2"}

\* Mutant: the per-request headers are merged before the global ones.
PrepareHeaders_GlobalLast(apiKey, global, additional) ==
    LET h0 == IF apiKey # "" THEN [k \in {"X-API-Key"} |-> apiKey] ELSE EmptyHeaders
        h1 == IF DOMAIN additional # {} THEN Update(h0, additional) ELSE h0
        h2 == IF DOMAIN global # {} THEN Update(h1, global) ELSE h1
    IN  h2

\* HttpClient._prepare_headers
PrepareHeaders(apiKey, global, additional) ==
    LET h0 == IF apiKey # "" THEN [k \in {"X-API-Key"} |-> apiKey] ELSE EmptyHeaders
        h1 == IF DOMAIN global # {} THEN Update(h0, global) ELSE h0
        h2 == IF DOMAIN additional # {} THEN Update(h1, additional) ELSE h1
    IN  h2

\* request_headers["Content-Type"] = "application/json"
WithJsonContentType(h) == Update(h, [k \in {"Content-Type"} |-> "application/json"])

\* {k: v for k, v in request_headers.items() if k.lower() != 'x-api-key'}
LoggedHeaders(h) == [k \in {n \in DOMAIN h : Lower(n) # "x-api-key"} |-> h[k]]

HeaderValues(h) == {h[k] : k \in DOMAIN h}

\* urlencode(params), params a list of (name, value) pairs
RECURSIVE UrlEncode(_)
UrlEncode(params) ==
    IF Len(params) = 0 THEN ""
    ELSE IF Len(params) = 1 THEN params[1][1] \o "=" \o params[1][2]
    ELSE params[1][1] \o "=" \o params[1][2] \o "&" \o UrlEncode(Tail(params))

\* " | ".join(messages)
RECURSIVE JoinMessages(_)
JoinMessages(ms) ==
    IF Len(ms) = 0 THEN ""
    ELSE IF Len(ms) = 1 THEN ms[1]
    ELSE ms[1] \o " | " \o JoinMessages(Tail(ms))

\* A decoded response body: a JSON object by its message / error / msg
\* members ("" where absent; messageList holds an array-shaped message), or
\* the response text.
JsonBody(list, message, error, msg) ==
    [isDict |-> TRUE, messageList |-> list, message |-> message, error |-> error, msg |-> msg, text |-> "",
     malformed |-> FALSE]
TextBody(t) ==
    [isDict |-> FALSE, messageList |-> <<>>, message |-> "", error |-> "", msg |-> "", text |-> t,
     malformed |-> FALSE]

\* A body sent with Content-Type application/json that is not JSON:
\* response.json() raises json.JSONDecodeError for it, not ContentTypeError.
MalformedJson(t) == [TextBody(t) EXCEPT !.malformed = TRUE]

\* str(data) / json.dumps(data) of a body, as a tag naming the body
Dump(data) ==
    IF ~data.isDict THEN data.text
    ELSE "{" \o JoinMessages(data.messageList) \o data.message \o data.error \o data.msg \o "}"

\* The message _handle_error_response extracts from the body.
ExtractMessage(data) ==
    IF data.isDict
    THEN IF Len(data.messageList) > 0
         THEN (IF JoinMessages(data.messageList) # ""
               THEN JoinMessages(data.messageList)
               ELSE IF data.error # "" THEN data.error ELSE Dump(data))
         ELSE IF data.message # "" THEN data.message
         ELSE IF data.error # "" THEN data.error
         ELSE IF data.msg # "" THEN data.msg
         ELSE Dump(data)
    ELSE Dump(data)

\* APIError.__init__ (and its subclasses, which pass their arguments on)
APIErrorOf(cls, message, status, data, url, method) ==
    [cls |-> cls, message |-> message, status_code |-> status,
     response_data |-> data, url |-> url, method |-> method]

NoAPIError == APIErrorOf("none", "", 0, TextBody(""), "", "")

\* The json.JSONDecodeError of response.json(): it has no status code, url or method.
JSONDecodeError == APIErrorOf("JSONDecodeError", "", 0, TextBody(""), "", "")

\* Mutant: 403 is not treated as an authentication failure.
HandleErrorResponse_403Generic(status, data, url, method) ==
    IF status = 429
    THEN APIErrorOf("RateLimitError", ExtractMessage(data), status, data, url, method)
    ELSE IF status = 401
    THEN APIErrorOf("AuthenticationError", ExtractMessage(data), status, data, url, method)
    ELSE APIErrorOf("APIError", ExtractMessage(data), status, data, url, method)

\* HttpClient._handle_error_response
HandleErrorResponse(status, data, url, method) ==
    IF status = 429
    THEN APIErrorOf("RateLimitError", ExtractMessage(data), status, data, url, method)
    ELSE IF status \in {401, 403}
    THEN APIErrorOf("AuthenticationError", ExtractMessage(data), status, data, url, method)
    ELSE APIErrorOf("APIError", ExtractMessage(data), status, data, url, method)

\* What the server answers: a status and a body.
Statuses == {200, 399, 400, 401, 403, 429, 500}
Bodies == {
    JsonBody(<<"price must be positive", "size is required">>, "", "Bad Request", ""),
    JsonBody(<<>>, "Too Many Requests", "", ""),
    JsonBody(<<>>, "", "", "unauthorized"),
    TextBody("Service Unavailable"),
    MalformedJson("<html>") }
Response(status, body) == [status |-> status, body |-> body]

Paths == {"/markets"}
ParamLists == {<<>>, << <<"page", "2">>, <<"limit", "10">> >>}

NoRequest ==
    [method |-> "none", handler |-> "none", path |-> "", url |-> "", apiKey |-> "",
     reqHeaders |-> EmptyHeaders, sent |-> EmptyHeaders, status |-> 0, body |-> TextBody(""),
     raised |-> FALSE, error |-> NoAPIError]

HttpInit ==
    /\ hSessions = <<>>
    /\ hCur = 0
    /\ hCtx = "none"
    /\ hErr = ""
    /\ hApiKey = ""
    /\ hCredOp = ""
    /\ hGlobal \in GlobalHeaderDicts
    /\ hLast = NoRequest
    /\ hLog = {}

\* Mutant: every call builds a new ClientSession.
EnsureSessionEffect_AlwaysNew(sessions, cur) ==
    [sessions |-> Append(sessions, FALSE), cur |-> Len(sessions) + 1]

\* HttpClient._ensure_session: a new ClientSession when there is none or
\* the current one is closed.
EnsureSessionEffect(sessions, cur) ==
    IF cur = 0 \/ sessions[cur]
    THEN [sessions |-> Append(sessions, FALSE), cur |-> Len(sessions) + 1]
    ELSE [sessions |-> sessions, cur |-> cur]

\* HttpClient.close: closes the current session if there is one and it is open.
CloseEffect(sessions, cur) ==
    IF cur # 0 /\ ~sessions[cur]
    THEN [sessions |-> [sessions EXCEPT ![cur] = TRUE], err |-> ""]
    ELSE [sessions |-> sessions, err |-> ""]

\* Room for one more ClientSession object within the bound of the model.
CanEnsure(sessions, cur) == (cur = 0 \/ sessions[cur]) => Len(sessions) < MaxSessions

\* The request goes out on the live session and the response comes back: a
\* body response.json() cannot decode raises its JSONDecodeError, status >=
\* 400 raises the mapped error, anything else returns the body.
Exchange(handler, method, path, url, headers, sent, resp) ==
    /\ CanEnsure(hSessions, hCur)
    /\ hSessions' = EnsureSessionEffect(hSessions, hCur).sessions
    /\ hCur' = EnsureSessionEffect(hSessions, hCur).cur
    /\ hCtx' = (IF hCtx \in {"exited", "exited_exc"} THEN "none" ELSE hCtx)
    /\ hErr' = ""
    /\ hLast' = [method |-> method, handler |-> handler, path |-> path, url |-> url,
                 apiKey |-> hApiKey, reqHeaders |-> headers,
                 sent |-> sent, status |-> resp.status, body |-> resp.body,
                 raised |-> resp.body.malformed \/ resp.status >= 400,
                 error |-> IF resp.body.malformed THEN JSONDecodeError
                           ELSE IF resp.status >= 400
                           THEN HandleErrorResponse(resp.status, resp.body, path, method)
                           ELSE NoAPIError]
    /\ UNCHANGED <<hApiKey, hCredOp, hGlobal>>

GetUrl(path, params) ==
    IF Len(params) > 0 THEN BaseUrl \o path \o "?" \o UrlEncode(params) ELSE BaseUrl \o path

\* HttpClient.get
HttpGet(path, params, headers, resp) ==
    LET request_headers == WithJsonContentType(PrepareHeaders(hApiKey, hGlobal, headers))
    IN  /\ Exchange("get", "GET", path, GetUrl(path, params), headers, request_headers, resp)
        /\ hLog' = hLog \cup HeaderValues(LoggedHeaders(request_headers))
        /\ UNCHANGED <<retryVars, lcVars, authVars, valVars, ocVars, wsVars, taskVars>>

\* HttpClient.post
HttpPost(path, headers, resp) ==
    LET request_headers == WithJsonContentType(PrepareHeaders(hApiKey, hGlobal, headers))
    IN  /\ Exchange("post", "POST", path, BaseUrl \o path, headers, request_headers, resp)
        /\ hLog' = hLog \cup HeaderValues(LoggedHeaders(request_headers))
        /\ UNCHANGED <<retryVars, lcVars, authVars, valVars, ocVars, wsVars, taskVars>>

\* HttpClient.post_with_response
HttpPostWithResponse(path, headers, resp) ==
    LET request_headers == WithJsonContentType(PrepareHeaders(hApiKey, hGlobal, headers))
    IN  /\ Exchange("post_with_response", "POST", path, BaseUrl \o path, headers, request_headers, resp)
        /\ UNCHANGED <<hLog, retryVars, lcVars, authVars, valVars, ocVars, wsVars, taskVars>>

\* HttpClient.delete
HttpDelete(path, headers, resp) ==
    LET request_headers == PrepareHeaders(hApiKey, hGlobal, headers)
    IN  /\ Exchange("delete", "DELETE", path, BaseUrl \o path, headers, request_headers, resp)
        /\ UNCHANGED <<hLog, retryVars, lcVars, authVars, valVars, ocVars, wsVars, taskVars>>

\* Mutant: a key that is already set is kept.
SetApiKey_KeepsFirst(k) ==
    /\ hApiKey' = (IF hApiKey = "" THEN k ELSE hApiKey)
    /\ hCredOp' = k
    /\ UNCHANGED <<hSessions, hCur, hCtx, hErr, hGlobal, hLast, hLog, retryVars, lcVars, authVars, valVars, ocVars, wsVars, taskVars>>

\* HttpClient.set_api_key
SetApiKey(k) ==
    /\ hApiKey' = k
    /\ hCredOp' = k
    /\ UNCHANGED <<hSessions, hCur, hCtx, hErr, hGlobal, hLast, hLog, retryVars, lcVars, authVars, valVars, ocVars, wsVars, taskVars>>

\* HttpClient.clear_api_key
ClearApiKey ==
    /\ hApiKey' = ""
    /\ hCredOp' = ""
    /\ UNCHANGED <<hSessions, hCur, hCtx, hErr, hGlobal, hLast, hLog, retryVars, lcVars, authVars, valVars, ocVars, wsVars, taskVars>>

\* HttpClient.__aenter__
HttpEnter ==
    /\ hCtx # "inside"
    /\ CanEnsure(hSessions, hCur)
    /\ hSessions' = EnsureSessionEffect(hSessions, hCur).sessions
    /\ hCur' = EnsureSessionEffect(hSessions, hCur).cur
    /\ hCtx' = "inside"
    /\ hErr' = ""
    /\ UNCHANGED <<hApiKey, hCredOp, hGlobal, hLast, hLog, retryVars, lcVars, authVars, valVars, ocVars, wsVars, taskVars>>

\* Mutant: the session is closed only when the block ended normally.
HttpExit_LeakOnException(exc) ==
    /\ hCtx = "inside"
    /\ hSessions' = (IF exc THEN hSessions ELSE CloseEffect(hSessions, hCur).sessions)
    /\ hErr' = CloseEffect(hSessions, hCur).err
    /\ hCtx' = (IF exc THEN "exited_exc" ELSE "exited")
    /\ UNCHANGED <<hCur, hApiKey, hCredOp, hGlobal, hLast, hLog, retryVars, lcVars, authVars, valVars, ocVars, wsVars, taskVars>>

\* HttpClient.__aexit__, the block having ended normally or by an exception
HttpExit(exc) ==
    /\ hCtx = "inside"
    /\ hSessions' = CloseEffect(hSessions, hCur).sessions
    /\ hErr' = CloseEffect(hSessions, hCur).err
    /\ hCtx' = (IF exc THEN "exited_exc" ELSE "exited")
    /\ UNCHANGED <<hCur, hApiKey, hCredOp, hGlobal, hLast, hLog, retryVars, lcVars, authVars, valVars, ocVars, wsVars, taskVars>>

\* HttpClient.close, called by the caller
HttpClose ==
    /\ hSessions' = CloseEffect(hSessions, hCur).sessions
    /\ hErr' = CloseEffect(hSessions, hCur).err
    /\ UNCHANGED <<hCur, hCtx, hApiKey, hCredOp, hGlobal, hLast, hLog, retryVars, lcVars, authVars, valVars, ocVars, wsVars, taskVars>>

\* No HttpClient is in use.
HttpIdle ==
    /\ hSessions = <<>>
    /\ hCur = 0
    /\ hCtx = "none"
    /\ hErr = ""
    /\ hApiKey = ""
    /\ hCredOp = ""
    /\ hGlobal = EmptyHeaders
    /\ hLast = NoRequest
    /\ hLog = {}

\* ------------------------------------------------------------------ LimitlessClient sessions

LcInit ==
    /\ lSessions = <<>>
    /\ lCur = 0
    /\ lHeaders = <<>>
    /\ lCtx = "none"
    /\ lErr = ""

\* LimitlessClient.create_session
CreateSessionEffect(sessions, cur) ==
    IF cur = 0 \/ sessions[cur]
    THEN [sessions |-> Append(sessions, FALSE), cur |-> Len(sessions) + 1]
    ELSE [sessions |-> sessions, cur |-> cur]

\* The default headers of the sessions after create_session: a new session
\* is built with headers={"Content-Type": "application/json"} alone.
CreateSessionHeaders(headers, sessions, cur) ==
    IF cur = 0 \/ sessions[cur] THEN Append(headers, 0) ELSE headers

\* LimitlessClient.close_session
CloseSessionEffect(sessions, cur) ==
    IF cur # 0 /\ ~sessions[cur]
    THEN [sessions |-> [sessions EXCEPT ![cur] = TRUE], err |-> ""]
    ELSE [sessions |-> sessions, err |-> ""]

\* LimitlessClient.create_session, called by the caller
LcCreateSession ==
    /\ CanEnsure(lSessions, lCur)
    /\ lSessions' = CreateSessionEffect(lSessions, lCur).sessions
    /\ lCur' = CreateSessionEffect(lSessions, lCur).cur
    /\ lHeaders' = CreateSessionHeaders(lHeaders, lSessions, lCur)
    /\ lCtx' = (IF lCtx \in {"exited", "exited_exc"} THEN "none" ELSE lCtx)
    /\ lErr' = ""
    /\ UNCHANGED <<retryVars, httpVars, authVars, valVars, ocVars, wsVars, taskVars>>

\* LimitlessClient.ensure_session, as every request method calls it first
LcEnsureSession ==
    /\ CanEnsure(lSessions, lCur)
    /\ IF lCur = 0 \/ lSessions[lCur]
       THEN /\ lSessions' = CreateSessionEffect(lSessions, lCur).sessions
            /\ lCur' = CreateSessionEffect(lSessions, lCur).cur
            /\ lHeaders' = CreateSessionHeaders(lHeaders, lSessions, lCur)
       ELSE UNCHANGED <<lSessions, lCur, lHeaders>>
    /\ lCtx' = (IF lCtx \in {"exited", "exited_exc"} THEN "none" ELSE lCtx)
    /\ lErr' = ""
    /\ UNCHANGED <<retryVars, httpVars, authVars, valVars, ocVars, wsVars, taskVars>>

\* LimitlessClient.close_session, called by the caller
LcCloseSession ==
    /\ lSessions' = CloseSessionEffect(lSessions, lCur).sessions
    /\ lErr' = CloseSessionEffect(lSessions, lCur).err
    /\ UNCHANGED <<lCur, lHeaders, lCtx, retryVars, httpVars, authVars, valVars, ocVars, wsVars, taskVars>>

\* LimitlessClient.__aenter__
LcEnter ==
    /\ lCtx # "inside"
    /\ CanEnsure(lSessions, lCur)
    /\ lSessions' = CreateSessionEffect(lSessions, lCur).sessions
    /\ lCur' = CreateSessionEffect(lSessions, lCur).cur
    /\ lHeaders' = CreateSessionHeaders(lHeaders, lSessions, lCur)
    /\ lCtx' = "inside"
    /\ lErr' = ""
    /\ UNCHANGED <<retryVars, httpVars, authVars, valVars, ocVars, wsVars, taskVars>>

\* LimitlessClient.__aexit__, the block having ended normally or by an exception
LcExit(exc) ==
    /\ lCtx = "inside"
    /\ lSessions' = CloseSessionEffect(lSessions, lCur).sessions
    /\ lErr' = CloseSessionEffect(lSessions, lCur).err
    /\ lCtx' = (IF exc THEN "exited_exc" ELSE "exited")
    /\ UNCHANGED <<lCur, lHeaders, retryVars, httpVars, authVars, valVars, ocVars, wsVars, taskVars>>

\* ------------------------------------------------------------------ LimitlessClient login

\* @retry_on_rate_limit(max_retries=2, delays=[5, 10]) on the client's methods
LcMaxRetries == 2
LcDelays == <<5, 10>>

MaxChallenges == 2
MaxLoginPosts == 3

\* One thing a call did: a method was entered, a request got its status, or
\* the retry wrapper slept.
Did(req, status, challenge) == [req |-> req, status |-> status, challenge |-> challenge]

\* The error a method raises for a status: RateLimitError(.., 429) or, for
\* AuthenticationError / LimitlessAPIError, an exception the wrapper knows
\* only by its text "...: <status> - <error_text>".
RaisedFor(status) ==
    IF status = 429 THEN Err("RateLimitError", 429, FALSE, FALSE) ELSE Err("Exception", 0, FALSE, FALSE)

\* The retry wrapper after attempt i of a method failed with `status`.
WrapperRetries(i, status) ==
    /\ i < LcMaxRetries
    /\ (IF i = 0 THEN FirstAttemptHandler(RaisedFor(status)) ELSE RetryAttemptHandler(RaisedFor(status))) = "retry"

\* The state of a run: the client's fields, the server's challenge counter,
\* the requests made, and the status and class of the error raised (0 and
\* "": none).
RunState(sm, token, issued, posted, call, raised) ==
    [sm |-> sm, token |-> token, issued |-> issued, posted |-> posted, call |-> call, raised |-> raised,
     cls |-> ""]

\* The methods that call ensure_authenticated first, the request each one
\* makes and the status it takes for success.
AuthenticatedOps ==
    {"get_user_orders", "get_positions", "get_user_history", "place_order",
     "cancel_order", "cancel_order_batch", "cancel_all_orders"}

RequestOf(op) ==
    CASE op = "get_user_orders" -> "GET /markets/{slug}/user-orders"
      [] op = "get_positions" -> "GET /portfolio/positions"
      [] op = "get_user_history" -> "GET /portfolio/history"
      [] op = "place_order" -> "POST /orders"
      [] op = "cancel_order" -> "DELETE /orders/{orderId}"
      [] op = "cancel_order_batch" -> "POST /orders/cancel-batch"
      [] op = "cancel_all_orders" -> "DELETE /orders/all/{slug}"

SuccessOf(op) == IF op \in {"place_order", "login"} THEN 201 ELSE 200

\* The class of the error a method raises for a response status that is
\* not its success status: the if / elif chain after each request.
ErrorOf(op, status) ==
    CASE op = "get_signing_message" ->
            IF status = 429 THEN "RateLimitError" ELSE "LimitlessAPIError"
      [] op = "login" ->
            IF status = 429 THEN "RateLimitError"
            ELSE IF status = 401 THEN "AuthenticationError"
            ELSE "LimitlessAPIError"
      [] op = "get_user_history" ->
            IF status = 400 THEN "LimitlessAPIError"
            ELSE IF status = 401 THEN "AuthenticationError"
            ELSE IF status = 429 THEN "RateLimitError"
            ELSE "LimitlessAPIError"
      [] op \in {"get_user_orders", "get_positions"} ->
            IF status = 429 THEN "RateLimitError"
            ELSE IF status = 401 THEN "AuthenticationError"
            ELSE "LimitlessAPIError"
      [] OTHER ->
            IF status = 401 THEN "AuthenticationError"
            ELSE IF status = 429 THEN "RateLimitError"
            ELSE "LimitlessAPIError"

\* LimitlessClient.get_signing_message under its retry wrapper, gets[i + 1]
\* being the server's answer to attempt i.
RECURSIVE GetSigningMessageRun(_, _, _)
GetSigningMessageRun(st, gets, i) ==
    LET status == gets[i + 1]
        fresh == st.issued + 1
    IN  IF status = 200
        THEN [st EXCEPT !.sm = fresh, !.issued = fresh, !.raised = 0,
                        !.call = Append(@, Did("GET /auth/signing-message", 200, fresh))]
        ELSE LET failed == [st EXCEPT !.call = Append(@, Did("GET /auth/signing-message", status, 0))]
             IN  IF WrapperRetries(i, status)
                 THEN GetSigningMessageRun(
                          [failed EXCEPT !.call = Append(@, Did("sleep", DelayFor(LcDelays, i), 0))],
                          gets, i + 1)
                 ELSE [failed EXCEPT !.raised = status, !.cls = ErrorOf("get_signing_message", status)]

\* Mutant: a login whose POST failed returns without raising.
LoginRun_SwallowsFailure(st, gets, post) ==
    LET entered == [st EXCEPT !.call = Append(@, Did("login", 0, 0)), !.raised = 0, !.cls = ""]
        s1 == IF st.sm = 0 THEN GetSigningMessageRun(entered, gets, 0) ELSE entered
    IN  IF s1.raised # 0 THEN s1
        ELSE LET sent == [s1 EXCEPT !.call = Append(@, Did("POST /auth/login", post, s1.sm)),
                                    !.posted = Append(@, s1.sm)]
             IN  IF post = SuccessOf("login") THEN [sent EXCEPT !.token = s1.sm] ELSE sent

\* Mutant: the login goes on to POST when no challenge could be fetched.
LoginRun_PostsAnyway(st, gets, post) ==
    LET entered == [st EXCEPT !.call = Append(@, Did("login", 0, 0)), !.raised = 0, !.cls = ""]
        s0 == IF st.sm = 0 THEN GetSigningMessageRun(entered, gets, 0) ELSE entered
        s1 == [s0 EXCEPT !.raised = 0, !.cls = ""]
        sent == [s1 EXCEPT !.call = Append(@, Did("POST /auth/login", post, s1.sm)),
                           !.posted = Append(@, s1.sm)]
    IN  IF post = SuccessOf("login") THEN [sent EXCEPT !.token = s1.sm]
        ELSE [sent EXCEPT !.raised = post, !.cls = ErrorOf("login", post)]

\* LimitlessClient.login
LoginRun(st, gets, post) ==
    LET entered == [st EXCEPT !.call = Append(@, Did("login", 0, 0)), !.raised = 0, !.cls = ""]
        s1 == IF st.sm = 0 THEN GetSigningMessageRun(entered, gets, 0) ELSE entered
    IN  IF s1.raised # 0 THEN s1
        ELSE LET sent == [s1 EXCEPT !.call = Append(@, Did("POST /auth/login", post, s1.sm)),
                                    !.posted = Append(@, s1.sm)]
             IN  IF post = SuccessOf("login") THEN [sent EXCEPT !.token = s1.sm]
                 ELSE [sent EXCEPT !.raised = post, !.cls = ErrorOf("login", post)]

\* An authenticated method under its retry wrapper: ensure_authenticated,
\* then its request; ins[i + 1] holds the server's answers during attempt i.
RECURSIVE AuthenticatedRun(_, _, _, _)
AuthenticatedRun(op, st, ins, i) ==
    LET in == ins[i + 1]
        s1 == IF st.token = 0 THEN LoginRun(st, in.gets, in.post) ELSE [st EXCEPT !.raised = 0, !.cls = ""]
        s2 == IF s1.raised # 0 THEN s1
              ELSE [s1 EXCEPT !.call = Append(@, Did(RequestOf(op), in.order, 0)),
                              !.raised = IF in.order = SuccessOf(op) THEN 0 ELSE in.order,
                              !.cls = IF in.order = SuccessOf(op) THEN "" ELSE ErrorOf(op, in.order)]
    IN  IF s2.raised # 0 /\ WrapperRetries(i, s2.raised)
        THEN AuthenticatedRun(op, [s2 EXCEPT !.call = Append(@, Did("sleep", DelayFor(LcDelays, i), 0))], ins, i + 1)
        ELSE s2

\* LimitlessClient.place_order
PlaceOrderRun(st, ins, i) == AuthenticatedRun("place_order", st, ins, i)

\* The server's answers to the GETs of one wrapped get_signing_message, to
\* the POST of a login, and to the attempts of a place_order.
GetRuns == [1..(LcMaxRetries + 1) -> {200, 429, 500}]
PlaceOrderRuns ==
    [1..(LcMaxRetries + 1) ->
        {[gets |-> <<200, 200, 200>>, post |-> p, order |-> o] : p \in {201, 429}, o \in {201, 401, 403, 429}}]

\* The server answers every attempt of an authenticated method alike.
ResponseStatuses == {200, 201, 400, 401, 403, 404, 429, 500}
SameAnswers == {[i \in 1..(LcMaxRetries + 1) |-> [gets |-> <<200, 200, 200>>, post |-> 201, order |-> o]] : o \in ResponseStatuses}

\* The run holds a login POST that the server answered 201.
LoggedIn(r) ==
    \E i \in 1..Len(r.call) : r.call[i].req = "POST /auth/login" /\ r.call[i].status = SuccessOf("login")

\* Mutant: the Authorization header is written before the answer is read.
LoginHeaders_BeforeAnswer(headers, cur, r) ==
    IF \E i \in 1..Len(r.call) : r.call[i].req = "POST /auth/login"
    THEN [headers EXCEPT ![cur] = r.sm]
    ELSE headers

\* LimitlessClient.login, its 201 branch: session.headers.update of the
\* session the login posted on.
LoginHeaders(headers, cur, r) ==
    IF LoggedIn(r) THEN [headers EXCEPT ![cur] = r.token] ELSE headers

\* A public method of the client has run to its end: the client's fields,
\* the requests it made and what it raised; ensure_session came first.
Finish(r) ==
    /\ r.issued <= MaxChallenges
    /\ Len(r.posted) <= MaxLoginPosts
    /\ CanEnsure(lSessions, lCur)
    /\ lSessions' = CreateSessionEffect(lSessions, lCur).sessions
    /\ lCur' = CreateSessionEffect(lSessions, lCur).cur
    /\ lHeaders' = LoginHeaders(CreateSessionHeaders(lHeaders, lSessions, lCur),
                                CreateSessionEffect(lSessions, lCur).cur, r)
    /\ lCtx' = (IF lCtx \in {"exited", "exited_exc"} THEN "none" ELSE lCtx)
    /\ lErr' = ""
    /\ signing_message' = r.sm
    /\ auth_token' = r.token
    /\ aIssued' = r.issued
    /\ aPosted' = r.posted
    /\ aCall' = r.call
    /\ aRaised' = r.raised
    /\ aRaisedCls' = r.cls
    /\ UNCHANGED <<retryVars, httpVars, valVars, ocVars, wsVars, taskVars>>

Entered(method) ==
    RunState(signing_message, auth_token, aIssued, aPosted,
             IF method = "" THEN <<>> ELSE <<Did(method, 0, 0)>>, 0)

\* the caller awaits client.get_signing_message()
LcGetSigningMessage(gets) == Finish(GetSigningMessageRun(Entered("get_signing_message"), gets, 0))

\* the caller awaits client.login()
LcLogin(gets, post) == Finish(LoginRun(Entered(""), gets, post))

\* the caller awaits client.place_order(dto)
LcPlaceOrder(ins) == Finish(PlaceOrderRun(Entered("place_order"), ins, 0))

\* the caller awaits another authenticated method of the client
LcAuthenticated(op, ins) == Finish(AuthenticatedRun(op, Entered(op), ins, 0))

AuthNext ==
    \/ \E gets \in GetRuns : LcGetSigningMessage(gets)
    \/ \E gets \in GetRuns, post \in {201, 401, 403, 429, 500} : LcLogin(gets, post)
    \/ \E ins \in PlaceOrderRuns : LcPlaceOrder(ins)
    \/ \E op \in AuthenticatedOps, ins \in SameAnswers : LcAuthenticated(op, ins)

\* ------------------------------------------------------------------ order validator

\* A Python value: a str (its characters), None, an int, or a float. A
\* finite float is m * 10^e, the decimal that repr() prints for it; nan is
\* the float whose s is "nan".
PyStr(chars) == [t |-> "str", s |-> chars, m |-> 0, e |-> 0]
PyNone == [t |-> "NoneType", s |-> <<>>, m |-> 0, e |-> 0]
PyInt(n) == [t |-> "int", s |-> <<>>, m |-> n, e |-> 0]
PyFloat(m, e) == [t |-> "float", s |-> <<>>, m |-> m, e |-> e]
PyNaN == [t |-> "float", s |-> <<"n", "a", "n">>, m |-> 0, e |-> 0]

IsNaN(x) == x.t = "float" /\ x.s # <<>>

\* isinstance(x, int), isinstance(x, (int, float))
IsInt(x) == x.t = "int"
IsNumber(x) == x.t \in {"int", "float"}

\* x < 0, x <= 0, x > 1 on numbers; every comparison with nan is False
Lt0(x) == ~IsNaN(x) /\ x.m < 0
Le0(x) == ~IsNaN(x) /\ x.m <= 0
Gt1(x) ==
    /\ ~IsNaN(x)
    /\ IF x.e >= 0 THEN x.m >= 1 /\ (x.m > 1 \/ x.e > 0) ELSE x.m > Power(10, 0 - x.e)

\* `not x`
Falsy(x) ==
    CASE x.t = "NoneType" -> TRUE
      [] x.t = "str" -> Len(x.s) = 0
      [] OTHER -> ~IsNaN(x) /\ x.m = 0

DecDigits == {"0", "1", "2", "3", "4", "5", "6", "7", "8", "9"}
HexDigits == DecDigits \cup {"a", "b", "c", "d", "e", "f", "A", "B", "C", "D", "E", "F"}

\* The part of a string a pattern ending in $ has to cover: $ also matches
\* just before a newline that ends the string.
UpToDollar(chars) ==
    IF Len(chars) > 0 /\ chars[Len(chars)] = "\n" THEN SubSeq(chars, 1, Len(chars) - 1) ELSE chars

\* re.match(r"^\d+$", chars)
MatchDigits(chars) ==
    LET c == UpToDollar(chars)
    IN  Len(c) >= 1 /\ \A i \in 1..Len(c) : c[i] \in DecDigits

\* re.match(r"^0x[0-9a-fA-F]{n}$", chars)
MatchHex(chars, n) ==
    LET c == UpToDollar(chars)
    IN  /\ Len(c) = n + 2
        /\ c[1] = "0"
        /\ c[2] = "x"
        /\ \A i \in 3..Len(c) : c[i] \in HexDigits

\* chars.startswith("0x")
StartsWith0x(chars) == Len(chars) >= 2 /\ chars[1] = "0" /\ chars[2] = "x"

\* _is_valid_address
is_valid_address(address) ==
    IF Falsy(address) \/ address.t # "str" THEN FALSE
    ELSE MatchHex(address.s, 40)

\* validate_gtc_order_args, its checks of token_id, taker, expiration and
\* nonce: the ValidationError they raise, "" when all pass.
gtc_common_checks(a) ==
    IF Falsy(a.token_id) THEN "TokenId is required"
    ELSE IF a.token_id = PyStr(<<"0">>) THEN "TokenId cannot be zero"
    ELSE IF ~MatchDigits(a.token_id.s) THEN "Invalid tokenId format"
    ELSE IF a.taker # PyNone /\ ~is_valid_address(a.taker) THEN "Invalid taker address"
    ELSE IF a.expiration # PyNone /\ (~IsInt(a.expiration) \/ Lt0(a.expiration)) THEN "Invalid expiration format"
    ELSE IF a.nonce # PyNone /\ (~IsInt(a.nonce) \/ Lt0(a.nonce)) THEN "Invalid nonce"
    ELSE ""

\* Mutant: nonce is looked at before expiration.
fok_common_checks_NonceFirst(a) ==
    IF Falsy(a.token_id) THEN "TokenId is required"
    ELSE IF a.token_id = PyStr(<<"0">>) THEN "TokenId cannot be zero"
    ELSE IF ~MatchDigits(a.token_id.s) THEN "Invalid tokenId format"
    ELSE IF a.taker # PyNone /\ ~is_valid_address(a.taker) THEN "Invalid taker address"
    ELSE IF a.nonce # PyNone /\ (~IsInt(a.nonce) \/ Lt0(a.nonce)) THEN "Invalid nonce"
    ELSE IF a.expiration # PyNone /\ (~IsInt(a.expiration) \/ Lt0(a.expiration)) THEN "Invalid expiration format"
    ELSE ""

\* validate_fok_order_args, its checks of token_id, taker, expiration and
\* nonce.
fok_common_checks(a) ==
    IF Falsy(a.token_id) THEN "TokenId is required"
    ELSE IF a.token_id = PyStr(<<"0">>) THEN "TokenId cannot be zero"
    ELSE IF ~MatchDigits(a.token_id.s) THEN "Invalid tokenId format"
    ELSE IF a.taker # PyNone /\ ~is_valid_address(a.taker) THEN "Invalid taker address"
    ELSE IF a.expiration # PyNone /\ (~IsInt(a.expiration) \/ Lt0(a.expiration)) THEN "Invalid expiration format"
    ELSE IF a.nonce # PyNone /\ (~IsInt(a.nonce) \/ Lt0(a.nonce)) THEN "Invalid nonce"
    ELSE ""

\* validate_gtc_order_args: the ValidationError it raises, "" when it returns
validate_gtc_order_args(a) ==
    IF gtc_common_checks(a) # "" THEN gtc_common_checks(a)
    ELSE IF ~IsNumber(a.price) THEN "Price must be a valid number"
    ELSE IF Lt0(a.price) \/ Gt1(a.price) THEN "Price must be between 0 and 1"
    ELSE IF ~IsNumber(a.size) THEN "Size must be a valid number"
    ELSE IF Le0(a.size) THEN "Size must be positive"
    ELSE ""

\* str(n) of a non-negative int
RECURSIVE DigitsOf(_)
DigitsOf(n) ==
    LET d == <<"0", "1", "2", "3", "4", "5", "6", "7", "8", "9">>[(n % 10) + 1]
    IN  IF n < 10 THEN <<d>> ELSE DigitsOf(n \div 10) \o <<d>>

\* The shortest digits of m * 10^e: trailing zeros move into the exponent.
RECURSIVE Shortest(_, _)
Shortest(m, e) == IF m # 0 /\ m % 10 = 0 THEN Shortest(m \div 10, e + 1) ELSE [m |-> m, e |-> e]

Zeros(k) == [i \in 1..k |-> "0"]

Abs(n) == IF n < 0 THEN 0 - n ELSE n

\* str(x): repr of a float prints its shortest digits, in exponent notation
\* when the decimal point lies 4 or more places left of them or more than
\* 16 places right of their start.
str(x) ==
    IF x.t = "str" \/ IsNaN(x) THEN x.s
    ELSE IF x.t = "NoneType" THEN <<"N", "o", "n", "e">>
    ELSE LET sign == IF x.m < 0 THEN <<"-">> ELSE <<>>
             sh == Shortest(Abs(x.m), x.e)
             d == DigitsOf(IF x.t = "int" THEN Abs(x.m) ELSE sh.m)
             n == Len(d)
             decpt == n + sh.e
             ex == DigitsOf(Abs(decpt - 1))
         IN  IF x.t = "int" THEN sign \o d
             ELSE IF sh.m = 0 THEN sign \o <<"0", ".", "0">>
             ELSE IF decpt <= 0 - 4 \/ decpt > 16
             THEN sign \o <<d[1]>> \o (IF n > 1 THEN <<".">> \o Tail(d) ELSE <<>>)
                       \o <<"e", IF decpt - 1 < 0 THEN "-" ELSE "+">>
                       \o (IF Len(ex) < 2 THEN <<"0">> \o ex ELSE ex)
             ELSE IF decpt <= 0 THEN sign \o <<"0", ".">> \o Zeros(0 - decpt) \o d
             ELSE IF decpt >= n THEN sign \o d \o Zeros(decpt - n) \o <<".", "0">>
             ELSE sign \o SubSeq(d, 1, decpt) \o <<".">> \o SubSeq(d, decpt + 1, n)

\* chars.find(ch): the 0-based index of the first ch, -1 when there is none
Find(chars, ch) ==
    IF \E i \in 1..Len(chars) : chars[i] = ch
    THEN (CHOOSE i \in 1..Len(chars) : chars[i] = ch /\ \A j \in 1..(i - 1) : chars[j] # ch) - 1
    ELSE 0 - 1

\* validate_fok_order_args: the ValidationError it raises, "" when it returns
validate_fok_order_args(a) ==
    LET amount_str == str(a.maker_amount)
        decimal_index == Find(amount_str, ".")
        decimal_places == Len(amount_str) - decimal_index - 1
    IN  IF fok_common_checks(a) # "" THEN fok_common_checks(a)
        ELSE IF ~IsNumber(a.maker_amount) THEN "Amount must be a valid number"
        ELSE IF Le0(a.maker_amount) THEN "Amount must be positive"
        ELSE IF decimal_index # 0 - 1 /\ decimal_places > 2 THEN "Amount must have max 2 decimal places"
        ELSE ""

\* x in (0, 1)
In01(x) == IsNumber(x) /\ ~IsNaN(x) /\ (x.m = 0 \/ Shortest(x.m, x.e) = [m |-> 1, e |-> 0])

\* validate_unsigned_order: the ValidationError it raises, "" when it returns
validate_unsigned_order(o) ==
    IF ~is_valid_address(o.maker) THEN "Invalid maker address"
    ELSE IF ~is_valid_address(o.signer) THEN "Invalid signer address"
    ELSE IF ~is_valid_address(o.taker) THEN "Invalid taker address"
    ELSE IF Falsy(o.maker_amount) THEN "MakerAmount must be greater than zero"
    ELSE IF Falsy(o.taker_amount) THEN "TakerAmount must be greater than zero"
    ELSE IF ~IsInt(o.maker_amount) \/ Le0(o.maker_amount) THEN "Invalid makerAmount"
    ELSE IF ~IsInt(o.taker_amount) \/ Le0(o.taker_amount) THEN "Invalid takerAmount"
    ELSE IF ~MatchDigits(o.token_id.s) THEN "Invalid tokenId format"
    ELSE IF ~IsInt(o.expiration) \/ Lt0(o.expiration) THEN "Invalid expiration format"
    ELSE IF ~IsInt(o.salt) \/ Le0(o.salt) THEN "Invalid salt"
    ELSE IF ~IsInt(o.nonce) \/ Lt0(o.nonce) THEN "Invalid nonce"
    ELSE IF ~IsInt(o.fee_rate_bps) \/ Lt0(o.fee_rate_bps) THEN "Invalid feeRateBps"
    ELSE IF ~In01(o.side) THEN "Invalid side"
    ELSE IF ~IsInt(o.signature_type) \/ Lt0(o.signature_type) THEN "Invalid signatureType"
    ELSE IF o.price # PyNone /\ ~IsNumber(o.price) THEN "Price must be a valid number"
    ELSE IF o.price # PyNone /\ (Lt0(o.price) \/ Gt1(o.price)) THEN "Price must be between 0 and 1"
    ELSE ""

\* Mutant: the length of the signature is left to the pattern.
validate_signed_order_NoLengthCheck(o) ==
    IF validate_unsigned_order(o) # "" THEN validate_unsigned_order(o)
    ELSE IF Falsy(o.signature) THEN "Signature is required"
    ELSE IF ~StartsWith0x(o.signature.s) THEN "Signature must start with 0x"
    ELSE IF ~MatchHex(o.signature.s, 130) THEN "Signature must be valid hex string"
    ELSE ""

\* Mutant: only the first 65 hex digits of the signature are looked at.
validate_signed_order_HalfChecked(o) ==
    IF validate_unsigned_order(o) # "" THEN validate_unsigned_order(o)
    ELSE IF Falsy(o.signature) THEN "Signature is required"
    ELSE IF ~StartsWith0x(o.signature.s) THEN "Signature must start with 0x"
    ELSE IF Len(o.signature.s) # 132 THEN "Invalid signature length"
    ELSE IF ~MatchHex(SubSeq(o.signature.s, 1, 67), 65) THEN "Signature must be valid hex string"
    ELSE ""

\* validate_signed_order: the ValidationError it raises, "" when it returns
validate_signed_order(o) ==
    IF validate_unsigned_order(o) # "" THEN validate_unsigned_order(o)
    ELSE IF Falsy(o.signature) THEN "Signature is required"
    ELSE IF ~StartsWith0x(o.signature.s) THEN "Signature must start with 0x"
    ELSE IF Len(o.signature.s) # 132 THEN "Invalid signature length"
    ELSE IF ~MatchHex(o.signature.s, 130) THEN "Signature must be valid hex string"
    ELSE ""

\* ------------------------------------------------------------------ order builder

\* A price in units of 0.0001 and a size in units of 0.0001 share.
PriceScale == 4
SizeScale == 4
InUnits(x, scale) == x.m * Power(10, x.e + scale)

\* The multiples of the tick nearest to the price (two when it lies halfway).
round_to_tick(price, tick) ==
    {r \in {(price \div tick) * tick, (price \div tick) * tick + tick} :
        /\ 2 * Abs(r - price) <= tick
        /\ \A q \in {(price \div tick) * tick, (price \div tick) * tick + tick} : Abs(r - price) <= Abs(q - price)}

\* Mutant: the fraction below one base unit is cut off.
scale_amount_Truncates(size, price) == (size * price) \div Power(10, SizeScale + PriceScale - 6)

\* size * price * 10^6 in base units, rounded half up.
scale_amount(size, price) ==
    LET d == Power(10, SizeScale + PriceScale - 6)
    IN  (2 * size * price + d) \div (2 * d)

Built(error, order) == [state |-> IF error = "" THEN "returned" ELSE "raised", error |-> error, order |-> order]

NoOrder == [token_id |-> PyNone, side |-> 0, price |-> 0, maker_amount |-> 0, taker_amount |-> 0]

\* Mutant: a price that rounds to 0 or 1 is moved to the nearest tick inside.
build_order_Clamps(a, rounded) ==
    LET tick == InUnits(a.price_tick, PriceScale)
        one == Power(10, PriceScale)
        price == IF rounded <= 0 THEN tick ELSE IF rounded >= one THEN one - tick ELSE rounded
        size == InUnits(a.size, SizeScale)
        usdc == scale_amount(size, price)
        shares == scale_amount(size, one)
        maker == IF a.side = 0 THEN usdc ELSE shares
        taker == IF a.side = 0 THEN shares ELSE usdc
    IN  IF validate_gtc_order_args(a) # "" THEN Built(validate_gtc_order_args(a), NoOrder)
        ELSE IF maker <= 0 \/ taker <= 0 THEN Built("amount rounds to 0", NoOrder)
        ELSE Built("", [token_id |-> a.token_id, side |-> a.side, price |-> price,
                        maker_amount |-> maker, taker_amount |-> taker])

\* OrderBuilder.build_order for a GTC order, the price rounded to `rounded`.
build_order(a, rounded) ==
    LET one == Power(10, PriceScale)
        size == InUnits(a.size, SizeScale)
        usdc == scale_amount(size, rounded)
        shares == scale_amount(size, one)
        maker == IF a.side = 0 THEN usdc ELSE shares
        taker == IF a.side = 0 THEN shares ELSE usdc
    IN  IF validate_gtc_order_args(a) # "" THEN Built(validate_gtc_order_args(a), NoOrder)
        ELSE IF rounded <= 0 THEN Built("rounds to 0.0", NoOrder)
        ELSE IF rounded >= one THEN Built("rounds to 1.0", NoOrder)
        ELSE IF maker <= 0 \/ taker <= 0 THEN Built("amount rounds to 0", NoOrder)
        ELSE Built("", [token_id |-> a.token_id, side |-> a.side, price |-> rounded,
                        maker_amount |-> maker, taker_amount |-> taker])

\* ------------------------------------------------------------------ calls of the order functions

\* "0x" and n times the digit ch; n hex digits that are not all the same
Addr(n, ch) == <<"0", "x">> \o [i \in 1..n |-> ch]
HexRun(n) == <<"0", "x">> \o [i \in 1..n |-> <<"1", "a", "F", "0">>[(i % 4) + 1]]

\* chars with the character at pos replaced by ch
Mutated(chars, pos, ch) == [chars EXCEPT ![pos] = ch]

TokenIds ==
    {PyStr(<<"1", "2", "3", "4", "5", "6">>), PyStr(<<>>), PyStr(<<"0">>), PyStr(<<"1", "2", "a">>),
     PyStr(<<"7">>), PyStr(<<"1", "2", "\n">>), PyStr(<<"0", "0">>), PyNone}
Addresses ==
    {PyStr(Addr(40, "a")), PyStr(HexRun(40)), PyStr(Addr(39, "a")), PyStr(Addr(40, "g")),
     PyStr(Addr(40, "a") \o <<"\n">>), PyStr([i \in 1..42 |-> "a"]), PyStr(<<>>)}
Epochs == {PyInt(0), PyInt(7), PyInt(0 - 1), PyFloat(15, 0 - 1)}
Prices ==
    {PyFloat(65, 0 - 2), PyFloat(0 - 1, 0 - 1), PyFloat(11, 0 - 1), PyFloat(0, 0), PyFloat(1, 0),
     PyInt(0), PyInt(1), PyInt(2), PyNaN, PyStr(<<"0", ".", "5">>), PyNone}
Sizes ==
    {PyFloat(1000, 0 - 1), PyFloat(1, 0 - 2), PyInt(0), PyInt(0 - 1), PyInt(3), PyFloat(0, 0),
     PyNaN, PyStr(<<"5">>), PyNone}
Amounts ==
    {PyFloat(50, 0), PyFloat(5, 0 - 1), PyFloat(125, 0 - 2), PyFloat(1255, 0 - 3), PyFloat(1, 0 - 2),
     PyFloat(1, 0 - 3), PyFloat(1, 0 - 4), PyFloat(1, 0 - 5), PyFloat(15, 0 - 6), PyFloat(1, 16),
     PyFloat(15, 15), PyFloat(1, 15), PyInt(10), PyInt(0), PyFloat(0 - 5, 0), PyFloat(0, 0),
     PyNaN, PyStr(<<"1", "0">>), PyNone}

GtcArgs(t, p, z, k, x, n) ==
    [op |-> "validate_gtc_order_args", token_id |-> t, price |-> p, size |-> z,
     taker |-> k, expiration |-> x, nonce |-> n]
FokArgs(t, m, k, x, n) ==
    [op |-> "validate_fok_order_args", token_id |-> t, maker_amount |-> m,
     taker |-> k, expiration |-> x, nonce |-> n]

\* A good and a bad value of token_id, and of each optional argument (a
\* number is no address, a string and a negative number are no timestamp and
\* no nonce).
SomeTokenIds == {PyStr(<<"7">>), PyStr(<<"1", "2", "a">>)}
SomeOptionals == {PyNone, PyInt(0 - 1), PyStr(Addr(40, "a"))}

\* The arguments of the validate_*_order_args calls: token_id, price and
\* size (or maker_amount) vary with no optional argument given, the
\* optional arguments vary over otherwise valid arguments, and several
\* arguments are bad at once.
GtcCalls ==
    {GtcArgs(t, p, z, PyNone, PyNone, PyNone) : t \in TokenIds, p \in Prices, z \in Sizes}
    \cup {GtcArgs(PyStr(<<"7">>), PyFloat(65, 0 - 2), PyFloat(1000, 0 - 1), k, x, n) :
            k \in Addresses \cup {PyNone}, x \in Epochs \cup {PyNone}, n \in Epochs \cup {PyNone}}
    \cup {GtcArgs(t, p, PyFloat(1000, 0 - 1), k, x, n) : t \in SomeTokenIds, p \in {PyFloat(65, 0 - 2), PyFloat(11, 0 - 1)},
            k \in SomeOptionals, x \in SomeOptionals, n \in SomeOptionals}
FokCalls ==
    {FokArgs(t, m, PyNone, PyNone, PyNone) : t \in TokenIds, m \in Amounts}
    \cup {FokArgs(PyStr(<<"7">>), PyFloat(50, 0), k, x, n) :
            k \in Addresses \cup {PyNone}, x \in Epochs \cup {PyNone}, n \in Epochs \cup {PyNone}}
    \cup {FokArgs(t, m, k, x, n) : t \in SomeTokenIds, m \in {PyFloat(50, 0), PyFloat(0 - 5, 0)},
            k \in SomeOptionals, x \in SomeOptionals, n \in SomeOptionals}

\* An order every check accepts.
GoodOrder ==
    [maker |-> PyStr(Addr(40, "a")), signer |-> PyStr(Addr(40, "a")), taker |-> PyStr(Addr(40, "0")),
     maker_amount |-> PyInt(2500000), taker_amount |-> PyInt(5000000),
     token_id |-> PyStr(<<"1", "2", "3">>), expiration |-> PyInt(0), salt |-> PyInt(7), nonce |-> PyInt(0),
     fee_rate_bps |-> PyInt(300), side |-> PyInt(0), signature_type |-> PyInt(0),
     price |-> PyFloat(5, 0 - 1), signature |-> PyStr(HexRun(130))]

\* The orders given to validate_unsigned_order and validate_signed_order:
\* GoodOrder with one field changed.
Orders ==
    {GoodOrder}
    \cup {[GoodOrder EXCEPT ![f] = v] : f \in {"maker", "signer", "taker"}, v \in Addresses \cup {PyNone}}
    \cup {[GoodOrder EXCEPT ![f] = v] : f \in {"maker_amount", "taker_amount", "salt"},
            v \in {PyInt(0), PyInt(1), PyInt(0 - 5), PyFloat(15, 0 - 1), PyFloat(0, 0), PyNone, PyStr(<<"5">>)}}
    \cup {[GoodOrder EXCEPT !.token_id = v] : v \in TokenIds \ {PyNone}}
    \cup {[GoodOrder EXCEPT ![f] = v] : f \in {"expiration", "nonce", "fee_rate_bps", "signature_type"},
            v \in Epochs \cup {PyNone}}
    \cup {[GoodOrder EXCEPT !.side = v] : v \in {PyInt(1), PyInt(2), PyInt(0 - 1), PyFloat(1, 0), PyNone}}
    \cup {[GoodOrder EXCEPT !.price = v] : v \in Prices}

\* The signatures given to validate_signed_order: a good one with one
\* character changed, and strings of other lengths.
SignaturePositions == {1, 2, 3, 67, 132}
Signatures ==
    {PyStr(Mutated(HexRun(130), pos, ch)) : pos \in SignaturePositions,
                                           ch \in {"0", "x", "X", "b", "F", "g", " ", "\n"}}
    \cup {PyStr(HexRun(129)), PyStr(HexRun(131)), PyStr(HexRun(130) \o <<"\n">>), PyStr(HexRun(129) \o <<"\n">>),
          PyStr(<<"0", "x">>), PyStr(<<"0">>), PyStr(<<>>), PyNone}

OrderCalls ==
    GtcCalls \cup FokCalls
    \cup {[op |-> "validate_unsigned_order", order |-> o] : o \in Orders}
    \cup {[op |-> "validate_signed_order", order |-> o] : o \in Orders}
    \cup {[op |-> "validate_signed_order", order |-> [GoodOrder EXCEPT !.signature = g]] : g \in Signatures}
    \cup {[op |-> "build_order", price_tick |-> k, token_id |-> t, price |-> p, size |-> z, side |-> d,
           taker |-> PyNone, expiration |-> PyNone, nonce |-> PyNone] :
            k \in {PyFloat(1, 0 - 3), PyFloat(5, 0 - 4), PyFloat(25, 0 - 2)},
            t \in {PyStr(<<"1", "2", "3">>), PyStr(<<"0">>)},
            p \in {PyFloat(1, 0 - 4), PyFloat(4, 0 - 4), PyFloat(5, 0 - 4), PyFloat(1, 0 - 3), PyFloat(15, 0 - 4),
                   PyFloat(125, 0 - 3), PyFloat(5, 0 - 1), PyFloat(65, 0 - 2), PyFloat(875, 0 - 3),
                   PyFloat(9994, 0 - 4), PyFloat(9995, 0 - 4), PyFloat(9996, 0 - 4), PyFloat(1, 0),
                   PyFloat(0, 0), PyFloat(11, 0 - 1)},
            z \in {PyFloat(1, 0), PyFloat(5, 0), PyFloat(1, 0 - 4), PyFloat(3, 0 - 3), PyFloat(1255, 0 - 3), PyInt(0)},
            d \in {0, 1}}

NoResult(state) == [state |-> state, error |-> "", order |-> NoOrder]

ValInit ==
    /\ vArgs \in OrderCalls
    /\ vResult = NoResult("pending")

\* A validator is called with vArgs and returns None or raises ValidationError.
Validated(op, error) ==
    /\ vArgs.op = op
    /\ vResult.state = "pending"
    /\ vResult' = Built(error, NoOrder)
    /\ UNCHANGED <<vArgs, retryVars, httpVars, lcVars, authVars, ocVars, wsVars, taskVars>>

ValidateGtcOrderArgs == Validated("validate_gtc_order_args", validate_gtc_order_args(vArgs))

ValidateFokOrderArgs == Validated("validate_fok_order_args", validate_fok_order_args(vArgs))

ValidateUnsignedOrder == Validated("validate_unsigned_order", validate_unsigned_order(vArgs.order))

ValidateSignedOrder == Validated("validate_signed_order", validate_signed_order(vArgs.order))

\* OrderBuilder(price_tick=...).build_order(token_id, price, size, side)
BuildOrder ==
    /\ vArgs.op = "build_order"
    /\ vResult.state = "pending"
    /\ IF validate_gtc_order_args(vArgs) # ""
       THEN vResult' = build_order(vArgs, 0)
       ELSE \E r \in round_to_tick(InUnits(vArgs.price, PriceScale), InUnits(vArgs.price_tick, PriceScale)) :
                vResult' = build_order(vArgs, r)
    /\ UNCHANGED <<vArgs, retryVars, httpVars, lcVars, authVars, ocVars, wsVars, taskVars>>

OrdersNext ==
    \/ ValidateGtcOrderArgs
    \/ ValidateFokOrderArgs
    \/ ValidateUnsignedOrder
    \/ ValidateSignedOrder
    \/ BuildOrder

\* ------------------------------------------------------------------ OrderClient

\* The markets orders are created for, and the logical tasks that call
\* create_order on one OrderClient.
Slugs == {"m1", "m2"}
Callers == {"t1", "t2"}

\* At most this many create_order calls are made on the client.
MaxCreateOrders == 2

\* The arguments given to create_order: for GTC and for FOK a valid call and
\* a call the validator rejects (price above 1, an amount with three decimal
\* places), and a call outside the preconditions that the validator lets
\* through (tokenId with a trailing newline).
CreateOrderCalls ==
    {GtcArgs(PyStr(<<"7">>), PyFloat(65, 0 - 2), PyFloat(1000, 0 - 1), PyNone, PyNone, PyNone),
     GtcArgs(PyStr(<<"7">>), PyFloat(11, 0 - 1), PyFloat(1000, 0 - 1), PyNone, PyNone, PyNone),
     GtcArgs(PyStr(<<"1", "2", "\n">>), PyFloat(65, 0 - 2), PyFloat(1000, 0 - 1), PyNone, PyNone, PyNone),
     FokArgs(PyStr(<<"7">>), PyFloat(50, 0), PyNone, PyNone, PyNone),
     FokArgs(PyStr(<<"7">>), PyFloat(1255, 0 - 3), PyNone, PyNone, PyNone)}

\* A cache entry: absent, in flight (the fetch is request number `fetch` of
\* ocNet) or resolved (by that request).
Handle(state, fetch) == [state |-> state, fetch |-> fetch]
Absent == Handle("absent", 0)

Request(kind, slug, call) == [kind |-> kind, slug |-> slug, call |-> call, answer |-> "pending"]

IdleTask == [pc |-> "idle", call |-> 0, slug |-> "", args |-> [op |-> "none"], venue |-> 0, error |-> ""]

\* The client as one value: venue cache, user data, requests, tasks.
OcState == [v |-> ocVenues, u |-> ocUserData, n |-> ocNet, t |-> ocTask]

\* Step 4 of create_order: POST the signed order to the orders endpoint and
\* await the answer.
post_order(st, c) ==
    [st EXCEPT !.n = Append(st.n, Request("order", st.t[c].slug, st.t[c].call)),
               !.t[c].pc = "awaitPost"]

\* Step 2 of create_order: the user data is used when it is there, awaited
\* when its fetch is in flight, and fetched from the profile otherwise.
resolve_user_data(st, c) ==
    IF st.u.state \in {"resolved", "supplied"} THEN post_order(st, c)
    ELSE IF st.u.state = "inflight" THEN [st EXCEPT !.t[c].pc = "awaitUser"]
    ELSE [st EXCEPT !.u = Handle("inflight", Len(st.n) + 1),
                    !.n = Append(st.n, Request("profile", "", st.t[c].call)),
                    !.t[c].pc = "awaitUser"]

\* Mutant: a caller that finds the venue in flight fetches it again.
resolve_venue_NoInFlightGuard(st, c) ==
    LET slug == st.t[c].slug
        h == st.v[slug]
    IN  IF h.state = "resolved" THEN resolve_user_data([st EXCEPT !.t[c].venue = h.fetch], c)
        ELSE [st EXCEPT !.v[slug] = Handle("inflight", Len(st.n) + 1),
                        !.n = Append(st.n, Request("venue", slug, st.t[c].call)),
                        !.t[c].pc = "awaitVenue"]

\* Step 1 of create_order: the venue of the slug is used when it is cached,
\* awaited when its fetch is in flight, and fetched otherwise.
resolve_venue(st, c) ==
    LET slug == st.t[c].slug
        h == st.v[slug]
    IN  IF h.state = "resolved" THEN resolve_user_data([st EXCEPT !.t[c].venue = h.fetch], c)
        ELSE IF h.state = "inflight" THEN [st EXCEPT !.t[c].pc = "awaitVenue"]
        ELSE [st EXCEPT !.v[slug] = Handle("inflight", Len(st.n) + 1),
                        !.n = Append(st.n, Request("venue", slug, st.t[c].call)),
                        !.t[c].pc = "awaitVenue"]

\* The validator create_order gives its arguments to, by order type.
validate_order_args(a) ==
    IF a.op = "validate_gtc_order_args" THEN validate_gtc_order_args(a) ELSE validate_fok_order_args(a)

\* create_order up to its first await: malformed arguments raise
\* ValidationError before any request, the others go on to the venue.
create_order(st, c) ==
    IF validate_order_args(st.t[c].args) # ""
    THEN [st EXCEPT !.t[c].pc = "raised", !.t[c].error = "ValidationError"]
    ELSE resolve_venue(st, c)

Commit(st) ==
    /\ ocVenues' = st.v
    /\ ocUserData' = st.u
    /\ ocNet' = st.n
    /\ ocTask' = st.t

\* The tasks waiting in `pc` (for `slug`, when one is given) get the failure
\* of the fetch they wait for.
FailWaiters(pc, slug) ==
    [c \in Callers |->
        IF ocTask[c].pc = pc /\ (slug = "" \/ ocTask[c].slug = slug)
        THEN [ocTask[c] EXCEPT !.pc = "raised", !.error = "APIError"]
        ELSE ocTask[c]]

OcInit ==
    /\ ocVenues = [s \in Slugs |-> Absent]
    /\ ocUserData \in {Absent, Handle("supplied", 0)}
    /\ ocNet = <<>>
    /\ ocTask = [c \in Callers |-> IdleTask]
    /\ ocCalls = 0

\* A task that is not inside create_order calls it.
OcCreateOrder(c, slug, a) ==
    /\ ocTask[c].pc \in {"idle", "returned", "raised"}
    /\ ocCalls < MaxCreateOrders
    /\ ocCalls' = ocCalls + 1
    /\ Commit(create_order([OcState EXCEPT !.t[c] = [pc |-> "called", call |-> ocCalls + 1, slug |-> slug,
                                                      args |-> a, venue |-> 0, error |-> ""]], c))
    /\ UNCHANGED <<retryVars, httpVars, lcVars, authVars, valVars, wsVars, taskVars>>

\* The venue fetch of a slug is answered: the venue is cached, or the
\* transport error goes to every task awaiting it and nothing is cached.
OcVenueResponse(slug, ok) ==
    /\ ocVenues[slug].state = "inflight"
    /\ ocNet' = [ocNet EXCEPT ![ocVenues[slug].fetch].answer = IF ok THEN "ok" ELSE "failed"]
    /\ ocVenues' = [ocVenues EXCEPT ![slug] = IF ok THEN Handle("resolved", ocVenues[slug].fetch) ELSE Absent]
    /\ ocTask' = IF ok THEN ocTask ELSE FailWaiters("awaitVenue", slug)
    /\ UNCHANGED <<ocUserData, ocCalls, retryVars, httpVars, lcVars, authVars, valVars, wsVars, taskVars>>

\* A task that awaited the venue goes on with it.
OcVenueReady(c) ==
    /\ ocTask[c].pc = "awaitVenue"
    /\ ocVenues[ocTask[c].slug].state = "resolved"
    /\ Commit(resolve_venue(OcState, c))
    /\ UNCHANGED <<ocCalls, retryVars, httpVars, lcVars, authVars, valVars, wsVars, taskVars>>

\* The profile fetch is answered.
OcProfileResponse(ok) ==
    /\ ocUserData.state = "inflight"
    /\ ocNet' = [ocNet EXCEPT ![ocUserData.fetch].answer = IF ok THEN "ok" ELSE "failed"]
    /\ ocUserData' = IF ok THEN Handle("resolved", ocUserData.fetch) ELSE Absent
    /\ ocTask' = IF ok THEN ocTask ELSE FailWaiters("awaitUser", "")
    /\ UNCHANGED <<ocVenues, ocCalls, retryVars, httpVars, lcVars, authVars, valVars, wsVars, taskVars>>

\* A task that awaited the user data goes on with it.
OcUserReady(c) ==
    /\ ocTask[c].pc = "awaitUser"
    /\ ocUserData.state = "resolved"
    /\ Commit(resolve_user_data(OcState, c))
    /\ UNCHANGED <<ocCalls, retryVars, httpVars, lcVars, authVars, valVars, wsVars, taskVars>>

\* The orders endpoint answers the POST of a task.
OcOrderResponse(c, ok) ==
    /\ ocTask[c].pc = "awaitPost"
    /\ \E i \in 1..Len(ocNet) :
        /\ ocNet[i].kind = "order" /\ ocNet[i].call = ocTask[c].call
        /\ ocNet' = [ocNet EXCEPT ![i].answer = IF ok THEN "ok" ELSE "failed"]
    /\ ocTask' = [ocTask EXCEPT ![c].pc = IF ok THEN "returned" ELSE "raised",
                                ![c].error = IF ok THEN "" ELSE "APIError"]
    /\ UNCHANGED <<ocVenues, ocUserData, ocCalls, retryVars, httpVars, lcVars, authVars, valVars, wsVars, taskVars>>

OrderClientNext ==
    \/ \E c \in Callers, slug \in Slugs, a \in CreateOrderCalls : OcCreateOrder(c, slug, a)
    \/ \E slug \in Slugs, ok \in BOOLEAN : OcVenueResponse(slug, ok)
    \/ \E c \in Callers : OcVenueReady(c)
    \/ \E ok \in BOOLEAN : OcProfileResponse(ok)
    \/ \E c \in Callers : OcUserReady(c)
    \/ \E c \in Callers, ok \in BOOLEAN : OcOrderResponse(c, ok)

\* No OrderClient is in use.
OcIdle ==
    /\ ocVenues = [s \in Slugs |-> Absent]
    /\ ocUserData = Absent
    /\ ocNet = <<>>
    /\ ocTask = [c \in Callers |-> IdleTask]
    /\ ocCalls = 0

\* ------------------------------------------------------------------ WebSocketClient

\* The (channel, params) pairs the caller subscribes to.
Subscriptions == {"subscribe_market_prices", "subscribe_positions"}

\* At most this many subscribe frames of one subscription are counted on a
\* connection.
MaxFrames == 2

\* max_reconnect_attempts: 0 stands for None (no limit).
ReconnectLimits == {0, 1, 2}

WebSocketConfigs == [auto_reconnect : BOOLEAN, max_reconnect_attempts : ReconnectLimits]

\* The client as one value.
WsNow ==
    [state |-> wsState, socket |-> wsSocket, subs |-> wsSubs, frames |-> wsFrames,
     reconnect |-> wsReconnect, attempts |-> wsAttempts]

NoFrames == [s \in Subscriptions |-> 0]

\* One subscribe frame for every entry of the subscription set.
OnceEach(subs) == [s \in Subscriptions |-> IF s \in subs THEN 1 ELSE 0]

\* The socket is up after connect(): the state is CONNECTED and the deferred
\* subscriptions are flushed.
established(st) ==
    [st EXCEPT !.state = "connected", !.socket = "open", !.frames = OnceEach(st.subs),
               !.reconnect = "idle", !.attempts = 0]

\* Mutant: a reconnect sends no subscribe frame.
reconnected_NoResend(st) ==
    [st EXCEPT !.state = "connected", !.socket = "open", !.frames = NoFrames,
               !.reconnect = "idle", !.attempts = 0]

\* The socket is up again after a reconnect attempt: every entry of the
\* subscription set is re-sent.
reconnected(st) ==
    [st EXCEPT !.state = "connected", !.socket = "open", !.frames = OnceEach(st.subs),
               !.reconnect = "idle", !.attempts = 0]

\* connect() failed: with auto_reconnect the client goes to RECONNECTING and
\* waits reconnect_delay, otherwise the error is propagated (state ERROR).
connect_failed(st) ==
    IF wsCfg.auto_reconnect
    THEN [st EXCEPT !.state = "reconnecting", !.socket = "closed", !.reconnect = "waiting", !.attempts = 0]
    ELSE [st EXCEPT !.state = "error", !.socket = "closed"]

\* Mutant: a lost connection is retried whatever auto_reconnect says.
connection_lost_AlwaysReconnects(st) ==
    [st EXCEPT !.state = "reconnecting", !.socket = "closed", !.frames = NoFrames,
               !.reconnect = "waiting", !.attempts = 0]

\* The connection was lost without disconnect(): with auto_reconnect the
\* client goes to RECONNECTING and waits reconnect_delay.
connection_lost(st) ==
    IF wsCfg.auto_reconnect
    THEN [st EXCEPT !.state = "reconnecting", !.socket = "closed", !.frames = NoFrames,
                    !.reconnect = "waiting", !.attempts = 0]
    ELSE [st EXCEPT !.state = "disconnected", !.socket = "closed", !.frames = NoFrames]

\* A reconnect attempt failed: the client waits again, until
\* max_reconnect_attempts attempts have been made.
reconnect_failed(st) ==
    IF wsCfg.max_reconnect_attempts = 0 THEN [st EXCEPT !.reconnect = "waiting"]
    ELSE IF st.attempts + 1 < wsCfg.max_reconnect_attempts
    THEN [st EXCEPT !.reconnect = "waiting", !.attempts = st.attempts + 1]
    ELSE [st EXCEPT !.state = "disconnected", !.reconnect = "idle", !.attempts = 0]

\* subscribe(channel, params): the pair is recorded, and its frame is sent
\* when the client is CONNECTED.
subscribe(st, s) ==
    [st EXCEPT !.subs = st.subs \cup {s},
               !.frames[s] = IF st.state = "connected" THEN st.frames[s] + 1 ELSE st.frames[s]]

\* Mutant: disconnect() leaves the reconnect timer and attempt alone.
disconnect_KeepsTimer(st) ==
    [st EXCEPT !.state = "disconnected", !.socket = "closed", !.frames = NoFrames, !.attempts = 0]

\* disconnect(): closes the socket and clears the pending reconnect.
disconnect(st) ==
    [st EXCEPT !.state = "disconnected", !.socket = "closed", !.frames = NoFrames,
               !.reconnect = "idle", !.attempts = 0]

\* The client becomes st by operation op.
WsCommit(st, op) ==
    /\ wsState' = st.state
    /\ wsSocket' = st.socket
    /\ wsSubs' = st.subs
    /\ wsFrames' = st.frames
    /\ wsReconnect' = st.reconnect
    /\ wsAttempts' = st.attempts
    /\ wsLast' = [op |-> op, from |-> wsState,
                  cause |-> IF op \in {"connection lost", "connect failed"} THEN op
                            ELSE IF op \in {"connect", "disconnect"} THEN ""
                            ELSE wsLast.cause]
    /\ UNCHANGED <<wsCfg, retryVars, httpVars, lcVars, authVars, valVars, ocVars, taskVars>>

WsInit ==
    /\ wsCfg \in WebSocketConfigs
    /\ wsState = "disconnected"
    /\ wsSocket = "closed"
    /\ wsSubs = {}
    /\ wsFrames = NoFrames
    /\ wsReconnect = "idle"
    /\ wsAttempts = 0
    /\ wsLast = [op |-> "", from |-> "disconnected", cause |-> ""]

\* connect() is called on a client that has no connection.
WsConnect ==
    /\ wsState \in {"disconnected", "error"}
    /\ WsCommit([WsNow EXCEPT !.state = "connecting"], "connect")

\* The connection attempt of connect() ends.
WsConnectResult(ok) ==
    /\ wsState = "connecting"
    /\ WsCommit(IF ok THEN established(WsNow) ELSE connect_failed(WsNow),
                IF ok THEN "connected" ELSE "connect failed")

WsSubscribe(s) ==
    /\ wsFrames[s] < MaxFrames
    /\ WsCommit(subscribe(WsNow, s), "subscribe")

\* The connection is lost unexpectedly.
WsConnectionLost ==
    /\ wsState = "connected"
    /\ WsCommit(connection_lost(WsNow), "connection lost")

\* reconnect_delay has passed: a reconnect attempt starts.
WsReconnectTimer ==
    /\ wsReconnect = "waiting"
    /\ WsCommit([WsNow EXCEPT !.reconnect = "attempting"], "reconnect timer")

\* The reconnect attempt ends.
WsReconnectResult(ok) ==
    /\ wsReconnect = "attempting"
    /\ WsCommit(IF ok THEN reconnected(WsNow) ELSE reconnect_failed(WsNow),
                IF ok THEN "reconnected" ELSE "reconnect failed")

WsDisconnect == WsCommit(disconnect(WsNow), "disconnect")

WebSocketNext ==
    \/ WsConnect
    \/ \E ok \in BOOLEAN : WsConnectResult(ok)
    \/ \E s \in Subscriptions : WsSubscribe(s)
    \/ WsConnectionLost
    \/ WsReconnectTimer
    \/ \E ok \in BOOLEAN : WsReconnectResult(ok)
    \/ WsDisconnect

\* No WebSocketClient is in use.
WsIdle ==
    /\ wsCfg = [auto_reconnect |-> TRUE, max_reconnect_attempts |-> 0]
    /\ wsState = "disconnected"
    /\ wsSocket = "closed"
    /\ wsSubs = {}
    /\ wsFrames = NoFrames
    /\ wsReconnect = "idle"
    /\ wsAttempts = 0
    /\ wsLast = [op |-> "", from |-> "disconnected", cause |-> ""]

\* No retry-wrapped call is in progress.
RetryIdle ==
    /\ cfgMaxRetries = 0
    /\ cfgDelays = <<>>
    /\ cfgStatusCodes = {}
    /\ wpc = "idle"
    /\ attempt = 0
    /\ lastException = NoError
    /\ delay = 0
    /\ events = <<>>
    /\ outcome = Pending

\* A caller that has no call under way.
NoTask == [pc |-> "idle", n |-> 0]

\* A caller that has not called the wrapped function: the locals of one
\* invocation of the wrapper (its place, `attempt`) and the calls of the
\* wrapped function it has made.
NoCall == [pc |-> "idle", attempt |-> 0, calls |-> 0]

TaskIdle ==
    /\ aTask = [t \in Callers |-> NoTask]
    /\ rTask = [t \in Callers |-> NoCall]
    /\ hTask = [t \in Callers |-> NoTask]

\* No login has happened and no order function is being called.
AuthIdle ==
    /\ signing_message = 0
    /\ auth_token = 0
    /\ aIssued = 0
    /\ aPosted = <<>>
    /\ aCall = <<>>
    /\ aRaised = 0
    /\ aRaisedCls = ""

ValIdle ==
    /\ vArgs = [op |-> "none"]
    /\ vResult = NoResult("idle")

OthersIdle == AuthIdle /\ ValIdle /\ OcIdle /\ WsIdle /\ TaskIdle

\* ------------------------------------------------------------------ concurrent callers

\* Callers awaiting authenticated methods of one LimitlessClient on one
\* event loop. A step runs a coroutine from one suspension to the next: the
\* code between two awaited responses is atomic. aTask[t].pc is the response
\* caller t waits for, aTask[t].n the challenge it POSTed.
Waiting(pc, n) == [pc |-> pc, n |-> n]

\* The method begins: ensure_authenticated, whose login (no token) calls
\* ensure_session and GETs a challenge (none stored) or signs the stored one
\* and POSTs it; with a token the method goes on to its own request.
CaStart(t) ==
    /\ aTask[t].pc \in {"idle", "done", "failed"}
    /\ CanEnsure(lSessions, lCur)
    /\ lSessions' = CreateSessionEffect(lSessions, lCur).sessions
    /\ lCur' = CreateSessionEffect(lSessions, lCur).cur
    /\ lHeaders' = CreateSessionHeaders(lHeaders, lSessions, lCur)
    /\ IF auth_token # 0
       THEN /\ aTask' = [aTask EXCEPT ![t] = Waiting("request", 0)]
            /\ UNCHANGED aPosted
       ELSE IF signing_message = 0
       THEN /\ aTask' = [aTask EXCEPT ![t] = Waiting("challenge", 0)]
            /\ UNCHANGED aPosted
       ELSE /\ Len(aPosted) < MaxLoginPosts
            /\ aTask' = [aTask EXCEPT ![t] = Waiting("login", signing_message)]
            /\ aPosted' = Append(aPosted, signing_message)
    /\ UNCHANGED <<signing_message, auth_token, aIssued, aCall, aRaised, aRaisedCls, lCtx, lErr>>
    /\ UNCHANGED <<rTask, hTask, retryVars, httpVars, valVars, ocVars, wsVars>>

\* /auth/signing-message answers: 200 stores the challenge and login signs
\* and POSTs it; another status raises LimitlessAPIError out of the method.
CaChallenge(t, status) ==
    /\ aTask[t].pc = "challenge"
    /\ IF status = 200
       THEN /\ aIssued < MaxChallenges
            /\ Len(aPosted) < MaxLoginPosts
            /\ aIssued' = aIssued + 1
            /\ signing_message' = aIssued + 1
            /\ aPosted' = Append(aPosted, aIssued + 1)
            /\ aTask' = [aTask EXCEPT ![t] = Waiting("login", aIssued + 1)]
       ELSE /\ aTask' = [aTask EXCEPT ![t] = Waiting("failed", 0)]
            /\ UNCHANGED <<aIssued, signing_message, aPosted>>
    /\ UNCHANGED <<auth_token, aCall, aRaised, aRaisedCls>>
    /\ UNCHANGED <<rTask, hTask, retryVars, httpVars, lcVars, valVars, ocVars, wsVars>>

\* /auth/login answers: 201 stores the token and the header and the method
\* sends its own request; 401 raises AuthenticationError out of the method.
CaLogin(t, status) ==
    /\ aTask[t].pc = "login"
    /\ IF status = SuccessOf("login")
       THEN /\ auth_token' = aTask[t].n
            /\ lHeaders' = [lHeaders EXCEPT ![lCur] = aTask[t].n]
            /\ aTask' = [aTask EXCEPT ![t] = Waiting("request", 0)]
       ELSE /\ aTask' = [aTask EXCEPT ![t] = Waiting("failed", 0)]
            /\ UNCHANGED <<auth_token, lHeaders>>
    /\ UNCHANGED <<signing_message, aIssued, aPosted, aCall, aRaised, aRaisedCls, lSessions, lCur, lCtx, lErr>>
    /\ UNCHANGED <<rTask, hTask, retryVars, httpVars, valVars, ocVars, wsVars>>

\* the method's own request is answered and the method returns
CaResponse(t) ==
    /\ aTask[t].pc = "request"
    /\ aTask' = [aTask EXCEPT ![t] = Waiting("done", 0)]
    /\ UNCHANGED <<rTask, hTask, retryVars, httpVars, lcVars, authVars, valVars, ocVars, wsVars>>

\* Callers awaiting one function wrapped by retry_on_rate_limit: the
\* decorator's max_retries and delays are shared by all invocations, the
\* wrapper's locals belong to each.
ConcurrentRetryInit ==
    /\ cfgMaxRetries \in 0..MaxRetriesBound
    /\ cfgDelays \in DelayLists
    /\ cfgStatusCodes = {429}
    /\ wpc = "idle"
    /\ attempt = 0
    /\ lastException = NoError
    /\ delay = 0
    /\ events = <<>>
    /\ outcome = Pending

\* wrapper(*args, **kwargs): the first attempt is awaited
CrCall(t) ==
    /\ rTask[t].pc \in {"idle", "returned", "raised", "exhausted"}
    /\ rTask' = [rTask EXCEPT ![t] = [pc |-> "first", attempt |-> 0, calls |-> 1]]
    /\ UNCHANGED <<aTask, hTask, retryVars, httpVars, lcVars, authVars, valVars, ocVars, wsVars>>

\* the first attempt returns or raises
CrFirstAttempt(t, r) ==
    /\ rTask[t].pc = "first"
    /\ rTask' = [rTask EXCEPT ![t].pc =
                    IF r.ok THEN "returned"
                    ELSE IF FirstAttemptHandler(r.err) = "raise" THEN "raised" ELSE "loop"]
    /\ UNCHANGED <<aTask, hTask, retryVars, httpVars, lcVars, authVars, valVars, ocVars, wsVars>>

\* for attempt in range(max_retries): the delay is read and the sleep is
\* awaited; after the last round last_exception is raised
CrSleep(t) ==
    /\ rTask[t].pc = "loop"
    /\ rTask' = [rTask EXCEPT ![t].pc =
                    IF rTask[t].attempt >= cfgMaxRetries THEN "exhausted"
                    ELSE IF Len(cfgDelays) = 0 THEN "raised"
                    ELSE "slept"]
    /\ UNCHANGED <<aTask, hTask, retryVars, httpVars, lcVars, authVars, valVars, ocVars, wsVars>>

\* Mutant: the loop counter is one variable of the decorated function,
\* advanced for every invocation by each failed retry.
CrRetryAttempt_SharedCounter(t, r) ==
    /\ rTask[t].pc = "slept"
    /\ rTask' = [u \in Callers |->
                    IF u # t
                    THEN [rTask[u] EXCEPT !.attempt = IF r.ok THEN @ ELSE @ + 1]
                    ELSE [rTask[t] EXCEPT
                            !.calls = @ + 1,
                            !.attempt = IF r.ok \/ RetryAttemptHandler(r.err) = "raise" THEN @ ELSE @ + 1,
                            !.pc = IF r.ok THEN "returned"
                                   ELSE IF RetryAttemptHandler(r.err) = "raise" THEN "raised" ELSE "loop"]]
    /\ UNCHANGED <<aTask, hTask, retryVars, httpVars, lcVars, authVars, valVars, ocVars, wsVars>>

\* the sleep is over and the function is awaited again, inside the loop
CrRetryAttempt(t, r) ==
    /\ rTask[t].pc = "slept"
    /\ rTask' = [rTask EXCEPT
                    ![t].calls = @ + 1,
                    ![t].attempt = IF r.ok \/ RetryAttemptHandler(r.err) = "raise" THEN @ ELSE @ + 1,
                    ![t].pc = IF r.ok THEN "returned"
                              ELSE IF RetryAttemptHandler(r.err) = "raise" THEN "raised" ELSE "loop"]
    /\ UNCHANGED <<aTask, hTask, retryVars, httpVars, lcVars, authVars, valVars, ocVars, wsVars>>

ConcurrentRetryNext ==
    \/ \E t \in Callers : CrCall(t)
    \/ \E t \in Callers, r \in OperationResults : CrFirstAttempt(t, r)
    \/ \E t \in Callers : CrSleep(t)
    \/ \E t \in Callers, r \in OperationResults : CrRetryAttempt(t, r)

\* Callers awaiting get, post, delete and close of one HttpClient on one
\* event loop. hTask[t].pc is what caller t awaits, hTask[t].n the
\* ClientSession its request or its close runs on.
HttpMethods == {"get", "post", "delete"}

\* get / post / delete: _ensure_session has no await, so the test and the
\* assignment of _session are one step; then the request is awaited.
ChRequest(t, method) ==
    /\ hTask[t].pc \in {"idle", "done"}
    /\ CanEnsure(hSessions, hCur)
    /\ hSessions' = EnsureSessionEffect(hSessions, hCur).sessions
    /\ hCur' = EnsureSessionEffect(hSessions, hCur).cur
    /\ hTask' = [hTask EXCEPT ![t] = Waiting(method, hCur')]
    /\ UNCHANGED <<hCtx, hErr, hApiKey, hCredOp, hGlobal, hLast, hLog>>
    /\ UNCHANGED <<aTask, rTask, retryVars, lcVars, authVars, valVars, ocVars, wsVars>>

\* the response arrives, or the request fails on a session closed meanwhile
ChResponse(t) ==
    /\ hTask[t].pc \in HttpMethods
    /\ hTask' = [hTask EXCEPT ![t] = Waiting("done", 0)]
    /\ UNCHANGED <<aTask, rTask, retryVars, httpVars, lcVars, authVars, valVars, ocVars, wsVars>>

\* close: `await self._session.close()` on an open session, else nothing.
\* ClientSession.closed turns True either before close() first suspends
\* (early) or when it completes.
ChClose(t, early) ==
    /\ hTask[t].pc \in {"idle", "done"}
    /\ IF hCur # 0 /\ ~hSessions[hCur]
       THEN /\ hTask' = [hTask EXCEPT ![t] = Waiting("closing", hCur)]
            /\ hSessions' = (IF early THEN CloseEffect(hSessions, hCur).sessions ELSE hSessions)
       ELSE /\ hTask' = [hTask EXCEPT ![t] = Waiting("done", 0)]
            /\ UNCHANGED hSessions
    /\ UNCHANGED <<hCur, hCtx, hErr, hApiKey, hCredOp, hGlobal, hLast, hLog>>
    /\ UNCHANGED <<aTask, rTask, retryVars, lcVars, authVars, valVars, ocVars, wsVars>>

\* the awaited ClientSession.close() completes: that session is closed
ChClosed(t) ==
    /\ hTask[t].pc = "closing"
    /\ hSessions' = [hSessions EXCEPT ![hTask[t].n] = TRUE]
    /\ hTask' = [hTask EXCEPT ![t] = Waiting("done", 0)]
    /\ UNCHANGED <<hCur, hCtx, hErr, hApiKey, hCredOp, hGlobal, hLast, hLog>>
    /\ UNCHANGED <<aTask, rTask, retryVars, lcVars, authVars, valVars, ocVars, wsVars>>

ConcurrentHttpNext ==
    \/ \E t \in Callers, method \in HttpMethods : ChRequest(t, method)
    \/ \E t \in Callers : ChResponse(t)
    \/ \E t \in Callers, early \in BOOLEAN : ChClose(t, early)
    \/ \E t \in Callers : ChClosed(t)

ConcurrentAuthNext ==
    \/ \E t \in Callers : CaStart(t)
    \/ \E t \in Callers, status \in {200, 500} : CaChallenge(t, status)
    \/ \E t \in Callers, status \in {201, 401} : CaLogin(t, status)
    \/ \E t \in Callers : CaResponse(t)

\* ------------------------------------------------------------------ specifications

\* One call of a function wrapped by retry_on_rate_limit.
Init == RetryInit /\ HttpIdle /\ LcInit /\ OthersIdle
Next == RetryNext
Spec == Init /\ [][Next]_vars

\* One call of a function wrapped by retry_on_errors.
InitRetryOnErrors == ROE_Init /\ HttpIdle /\ LcInit /\ OthersIdle
SpecRetryOnErrors == InitRetryOnErrors /\ [][ROE_Next]_vars

\* The requests of one HttpClient: callers pass any headers and the server
\* answers 200 or 500, or callers pass no headers and the server answers
\* with any status and body.
HttpRequests ==
    \/ \E path \in Paths, params \in ParamLists, st \in Statuses, b \in Bodies :
        HttpGet(path, params, EmptyHeaders, Response(st, b))
    \/ \E path \in Paths, h \in RequestHeaderDicts, st \in {200, 500} :
        HttpGet(path, <<>>, h, Response(st, TextBody("Service Unavailable")))
    \/ \E path \in Paths, st \in Statuses, b \in Bodies :
        HttpPost(path, EmptyHeaders, Response(st, b))
    \/ \E path \in Paths, h \in RequestHeaderDicts, st \in {200, 500} :
        HttpPost(path, h, Response(st, TextBody("Service Unavailable")))
    \/ \E path \in Paths, st \in Statuses, b \in Bodies :
        HttpPostWithResponse(path, EmptyHeaders, Response(st, b))
    \/ \E path \in Paths, h \in RequestHeaderDicts, st \in {200, 500} :
        HttpPostWithResponse(path, h, Response(st, TextBody("Service Unavailable")))
    \/ \E path \in Paths, st \in Statuses, b \in Bodies :
        HttpDelete(path, EmptyHeaders, Response(st, b))
    \/ \E path \in Paths, h \in RequestHeaderDicts, st \in {200, 500} :
        HttpDelete(path, h, Response(st, TextBody("Service Unavailable")))

HttpNext ==
    \/ HttpRequests
    \/ \E k \in ApiKeys : SetApiKey(k)
    \/ ClearApiKey

InitHttp == RetryIdle /\ HttpInit /\ LcInit /\ OthersIdle
SpecHttp == InitHttp /\ [][HttpNext]_vars

\* One HttpClient whose credential is set, replaced and cleared between
\* requests that succeed or fail.
CredentialNext ==
    \/ \E k \in SwappedKeys : SetApiKey(k)
    \/ ClearApiKey
    \/ \E path \in Paths, params \in ParamLists, h \in RequestHeaderDicts, st \in {200, 401} :
        HttpGet(path, params, h, Response(st, TextBody("")))
    \/ \E path \in Paths, h \in RequestHeaderDicts, st \in {200, 401} :
        HttpPost(path, h, Response(st, TextBody("")))
    \/ \E path \in Paths, h \in RequestHeaderDicts, st \in {200, 401} :
        HttpPostWithResponse(path, h, Response(st, TextBody("")))
    \/ \E path \in Paths, h \in RequestHeaderDicts, st \in {200, 401} :
        HttpDelete(path, h, Response(st, TextBody("")))

SpecCredential == InitHttp /\ [][CredentialNext]_vars

\* The sessions of one HttpClient and of one LimitlessClient, each used
\* inside and outside `async with` blocks.
SessionNext ==
    \/ HttpEnter
    \/ \E exc \in BOOLEAN : HttpExit(exc)
    \/ HttpClose
    \/ \E st \in {200, 500} : HttpGet("/markets", <<>>, EmptyHeaders, Response(st, TextBody("Service Unavailable")))
    \/ LcEnter
    \/ \E exc \in BOOLEAN : LcExit(exc)
    \/ LcCreateSession
    \/ LcEnsureSession
    \/ LcCloseSession

InitSession == RetryIdle /\ HttpIdle /\ LcInit /\ OthersIdle
SpecSession == InitSession /\ [][SessionNext]_vars

\* One call of a function of the orders package.
InitOrders == RetryIdle /\ HttpIdle /\ LcInit /\ AuthIdle /\ ValInit /\ OcIdle /\ WsIdle /\ TaskIdle
SpecOrders == InitOrders /\ [][OrdersNext]_vars

\* The calls on one LimitlessClient: get_signing_message, login, place_order.
InitAuth == RetryIdle /\ HttpIdle /\ LcInit /\ AuthIdle /\ ValIdle /\ OcIdle /\ WsIdle /\ TaskIdle
SpecAuth == InitAuth /\ [][AuthNext]_vars

\* One LimitlessClient whose caller logs in, calls authenticated methods
\* and closes and re-creates the session in between; the server answers
\* each challenge GET, login POST and request with success or an error.
ChallengeAnswers == [1..(LcMaxRetries + 1) -> {200, 429}]
ThrottledRuns(op) ==
    {[i \in 1..(LcMaxRetries + 1) |-> [gets |-> g, post |-> p, order |-> o]] :
        g \in ChallengeAnswers, p \in {201, 429}, o \in {SuccessOf(op), 401, 429}}

AuthSessionNext ==
    \/ \E gets \in ChallengeAnswers, post \in {201, 401, 429} : LcLogin(gets, post)
    \/ \E op \in {"get_positions", "place_order", "cancel_order"} :
            \E ins \in ThrottledRuns(op) : LcAuthenticated(op, ins)
    \/ LcCloseSession
    \/ LcCreateSession

SpecAuthSession == InitAuth /\ [][AuthSessionNext]_vars

\* Callers awaiting authenticated methods of one LimitlessClient concurrently.
SpecConcurrentAuth == InitAuth /\ [][ConcurrentAuthNext]_vars

\* Callers awaiting one function wrapped by retry_on_rate_limit concurrently.
InitConcurrentRetry == ConcurrentRetryInit /\ HttpIdle /\ LcInit /\ OthersIdle
SpecConcurrentRetry == InitConcurrentRetry /\ [][ConcurrentRetryNext]_vars

\* Callers awaiting get, post, delete and close of one HttpClient concurrently.
SpecConcurrentHttp == InitSession /\ [][ConcurrentHttpNext]_vars

\* Tasks calling create_order on one OrderClient.
InitOrderClient == RetryIdle /\ HttpIdle /\ LcInit /\ AuthIdle /\ ValIdle /\ OcInit /\ WsIdle /\ TaskIdle
SpecOrderClient == InitOrderClient /\ [][OrderClientNext]_vars

\* One WebSocketClient: its caller, its socket and its reconnect timer.
InitWebSocket == RetryIdle /\ HttpIdle /\ LcInit /\ AuthIdle /\ ValIdle /\ OcIdle /\ WsInit /\ TaskIdle
SpecWebSocket == InitWebSocket /\ [][WebSocketNext]_vars

\* ------------------------------------------------------------------ reading the trace

IsCall(x) == x.type = "call"
IsSleep(x) == x.type = "sleep"
IsObserve(x) == x.type = "on_retry"

CallsOf(ev) == SelectSeq(ev, IsCall)
SleepsOf(ev) == SelectSeq(ev, IsSleep)
ObservesOf(ev) == SelectSeq(ev, IsObserve)

\* The failures retry_on_rate_limit is documented to retry: a 429 carried as a
\* status by a typed failure, or as the "429 ... Too Many Requests" marker
\* of a generic one.
RateLimited(e) ==
    \/ e.kind \in StatusKinds /\ e.status \in cfgStatusCodes
    \/ e.kind = "Exception" /\ e.has429 /\ e.hasTMR

\* A failure whose status is not retryable: a typed failure with a status
\* outside the retryable set, or a generic one without the marker.
StatusNotRetryable(e) ==
    \/ e.kind \in StatusKinds /\ e.status \notin cfgStatusCodes
    \/ e.kind = "Exception" /\ ~(e.has429 /\ e.hasTMR)

EveryAttemptRateLimited ==
    \A i \in 1..Len(events) : IsCall(events[i]) => (~events[i].ok /\ RateLimited(events[i].err))

LastCall == CallsOf(events)[Len(CallsOf(events))]

\* ------------------------------------------------------------------ claims

\* C1. Retry exhaustion: when every attempt of the wrapped operation fails
\* with a retryable status (429), the finished call has invoked the
\* operation exactly max_retries + 1 times and has raised the failure of the
\* last attempt.
C1_RetryExhaustion ==
    (wpc = "done" /\ EveryAttemptRateLimited) =>
        /\ Len(CallsOf(events)) = cfgMaxRetries + 1
        /\ outcome = Raised(LastCall.err)

\* C2. Non-retryable short-circuit: an attempt (the first or any retry) that
\* fails with a status outside the retryable set ends the call at once: the
\* wrapper raises that very failure and nothing (no attempt, no wait, no
\* observer call) follows it.
C2_NonRetryableShortCircuit ==
    \A i \in 1..Len(events) :
        (IsCall(events[i]) /\ ~events[i].ok /\ StatusNotRetryable(events[i].err)) =>
            /\ i = Len(events)
            /\ wpc = "done"
            /\ outcome = Raised(events[i].err)

\* C2 witness: a retry (not the first attempt) failed with status 500 and
\* the call ended with that failure.
C2_Witness ==
    /\ wpc = "done"
    /\ Len(CallsOf(events)) >= 2
    /\ LastCall.err = Err("RateLimitError", 500, FALSE, FALSE)
    /\ outcome = Raised(LastCall.err)
    /\ attempt + 1 < cfgMaxRetries

\* C3. A timeout-class failure of any attempt is re-raised at once; the
\* operation is not invoked again, even when retries remain.
C3_TimeoutNeverRetried ==
    \A i \in 1..Len(events) :
        (IsCall(events[i]) /\ ~events[i].ok /\ events[i].err.kind \in TimeoutKinds) =>
            /\ i = Len(events)
            /\ wpc = "done"
            /\ outcome = Raised(events[i].err)

\* C3 witness: the first retry timed out while another retry was left.
C3_Witness ==
    /\ wpc = "done"
    /\ Len(CallsOf(events)) = 2
    /\ LastCall.err.kind = "TimeoutError"
    /\ cfgMaxRetries >= 2
    /\ outcome = Raised(LastCall.err)

\* The delay the schedule names for retry number i (0-based).
ScheduledDelay(i) ==
    IF i < Len(cfgDelays) THEN cfgDelays[i + 1] ELSE cfgDelays[Len(cfgDelays)]

\* C4. Delay schedule: the trace alternates attempt, wait, attempt, ...: it
\* starts with an attempt, each wait stands between two attempts once the
\* retry has run, no wait follows the last attempt, and the wait before
\* retry number i lasts delays[i], or the last entry of delays from
\* i = len(delays) on.
C4_DelaySchedule ==
    /\ \A i \in 1..Len(events) :
        /\ (i % 2 = 1) => IsCall(events[i])
        /\ (i % 2 = 0) => (IsSleep(events[i]) /\ events[i].delay = ScheduledDelay((i \div 2) - 1))
    /\ (wpc = "done") => (Len(events) % 2 = 1)
    /\ (wpc = "slept") <=> (Len(events) > 0 /\ Len(events) % 2 = 0)

\* C4 witness: two waits happened under a one-entry delay list, so the
\* second wait used the clamped (last) entry, and the call has ended.
C4_Witness ==
    /\ wpc = "done"
    /\ Len(cfgDelays) = 1
    /\ Len(SleepsOf(events)) = 2
    /\ Len(CallsOf(events)) = 3

ROE_Retryable(e) ==
    \/ e.kind = "APIError" /\ e.status \in cfgStatusCodes
    \/ e.kind = "Exception" /\ e.has429 /\ e.hasTMR /\ 429 \in cfgStatusCodes

ROE_EveryAttemptRetryable ==
    \A i \in 1..Len(events) : IsCall(events[i]) => (~events[i].ok /\ ROE_Retryable(events[i].err))

\* C5. Retry observer: on_retry is called once per retry, right after the
\* failed attempt whose failure it receives and right before the wait
\* whose delay it receives, with attempt indices 0, 1, 2, ... in order; when
\* every attempt fails with a retryable status the finished call has called
\* it exactly max_retries times.
C5_RetryObserver ==
    /\ \A i \in 1..Len(events) :
        /\ IsObserve(events[i]) =>
            /\ i > 1
            /\ IsCall(events[i - 1])
            /\ ~events[i - 1].ok
            /\ events[i - 1].err = events[i].err
            /\ i < Len(events) => (IsSleep(events[i + 1]) /\ events[i + 1].delay = events[i].delay)
        /\ IsSleep(events[i]) => (i > 1 /\ IsObserve(events[i - 1]))
    /\ \A k \in 1..Len(ObservesOf(events)) : ObservesOf(events)[k].attempt = k - 1
    /\ wpc = "done" => Len(ObservesOf(events)) = Len(SleepsOf(events))
    /\ (wpc = "done" /\ ROE_EveryAttemptRetryable) => Len(ObservesOf(events)) = cfgMaxRetries

\* C5 witness: every attempt failed with a retryable status under
\* max_retries >= 2 and the call has ended after two observer calls.
C5_Witness ==
    /\ wpc = "done"
    /\ ROE_EveryAttemptRetryable
    /\ cfgMaxRetries = 2
    /\ Len(ObservesOf(events)) = 2
    /\ ObservesOf(events)[2].attempt = 1
    /\ outcome.kind = "raise"

\* The requests of the last call, by kind.
IsLoginPost(x) == x.req = "POST /auth/login"
IsOrderPost(x) == x.req = "POST /orders"

\* The index in the last call where the login that made request j began.
LoginStart(j) == CHOOSE k \in 1..j : aCall[k].req = "login" /\ \A m \in (k + 1)..j : aCall[m].req # "login"

\* C11. Fresh challenge per login: every POST to /auth/login carries a
\* challenge that a GET of /auth/signing-message returned during the same
\* login call, and no challenge is POSTed to /auth/login twice.
C11_FreshChallengePerLogin ==
    /\ \A j \in 1..Len(aCall) :
        IsLoginPost(aCall[j]) =>
            \E g \in LoginStart(j)..j :
                /\ aCall[g].req = "GET /auth/signing-message"
                /\ aCall[g].status = 200
                /\ aCall[g].challenge = aCall[j].challenge
    /\ \A a, b \in 1..Len(aPosted) : a # b => aPosted[a] # aPosted[b]

\* C12. Re-authentication: when the first POST of a call through the
\* authenticated client is answered 401 or 403, the credential is dropped,
\* login runs exactly once and the request is sent exactly once more; when
\* that one fails with 401 or 403 too the error is raised with no further
\* login or request.
C12_ReauthenticateOnce ==
    LET posts == SelectSeq(aCall, IsOrderPost)
        first == CHOOSE j \in 1..Len(aCall) : IsOrderPost(aCall[j]) /\ \A m \in 1..(j - 1) : ~IsOrderPost(aCall[m])
        loginsAfter == {k \in (first + 1)..Len(aCall) : aCall[k].req = "login"}
    IN  (Len(posts) > 0 /\ posts[1].status \in {401, 403}) =>
            /\ Cardinality(loginsAfter) = 1
            /\ Len(posts) = 2
            /\ \A k \in loginsAfter : \E m \in (k + 1)..Len(aCall) : IsOrderPost(aCall[m])
            /\ posts[2].status \in {401, 403} => aRaised = posts[2].status

\* C13. Validation and signing errors are never retried: an attempt that
\* fails with a ValidationError or a SigningError is the only attempt,
\* whatever text the message holds: no wait and no further attempt follows
\* it, and the finished call has raised that error.
C13_ValidationNeverRetried ==
    \A i \in 1..Len(events) :
        (IsCall(events[i]) /\ ~events[i].ok /\ events[i].err.kind \in NonTransportKinds) =>
            /\ i = 1
            /\ i = Len(events)
            /\ wpc = "done" => outcome = Raised(events[i].err)

\* C6. Error mapping: _handle_error_response is reached exactly for the
\* decoded responses with status >= 400, and the error it produces is a
\* RateLimitError iff the status is 429, an AuthenticationError iff it is
\* 401 or 403, and a plain APIError for every other status.
C6_ErrorMapping ==
    /\ (hLast.raised /\ hLast.error # JSONDecodeError)
            <=> (hLast.method # "none" /\ hLast.status >= 400 /\ ~hLast.body.malformed)
    /\ (hLast.raised /\ hLast.error # JSONDecodeError) =>
        /\ hLast.error.cls \in {"RateLimitError", "AuthenticationError", "APIError"}
        /\ hLast.error.cls = "RateLimitError" <=> hLast.status = 429
        /\ hLast.error.cls = "AuthenticationError" <=> hLast.status \in {401, 403}
        /\ hLast.error.cls = "APIError" <=> hLast.status \notin {401, 403, 429}

\* C6 witness: a DELETE answered 403 has raised an AuthenticationError.
C6_Witness ==
    /\ hLast.handler = "delete"
    /\ hLast.status = 403
    /\ hLast.raised
    /\ hLast.error.cls = "AuthenticationError"

\* C7. Every error raised for a response with status >= 400 carries the
\* message, the status code and the raw body of the response, and the URL
\* and the HTTP method of the failed request.
C7_ErrorContext ==
    hLast.raised =>
        /\ hLast.error.message = ExtractMessage(hLast.body)
        /\ hLast.error.status_code = hLast.status
        /\ hLast.error.response_data = hLast.body
        /\ hLast.error.url = hLast.url
        /\ hLast.error.method = hLast.method

\* The value the precedence rule names for header k of the last request:
\* per-request, else client-global, else the credential header.
Supplied(k) ==
    \/ k \in DOMAIN hLast.reqHeaders
    \/ k \in DOMAIN hGlobal
    \/ k = "X-API-Key" /\ hLast.apiKey # ""

ByPrecedence(k) ==
    IF k \in DOMAIN hLast.reqHeaders THEN hLast.reqHeaders[k]
    ELSE IF k \in DOMAIN hGlobal THEN hGlobal[k]
    ELSE hLast.apiKey

\* C8 as stated. Header precedence: every header a source supplies for a
\* request is sent with the per-request value if there is one, else with
\* the client-global value, else as the credential header.
C8_HeaderPrecedence_AllHeaders ==
    hLast.method # "none" =>
        \A k \in HeaderNames :
            Supplied(k) => (k \in DOMAIN hLast.sent /\ hLast.sent[k] = ByPrecedence(k))

\* C8 as amended. The precedence holds for every header of a delete, and for
\* every header other than Content-Type of a get, post or
\* post_with_response; these three always send
\* Content-Type: application/json, whatever the caller or the constructor
\* supplied. No other header is sent.
C8_HeaderPrecedence ==
    hLast.method # "none" =>
        /\ \A k \in HeaderNames :
            (Supplied(k) /\ (k # "Content-Type" \/ hLast.handler = "delete")) =>
                (k \in DOMAIN hLast.sent /\ hLast.sent[k] = ByPrecedence(k))
        /\ hLast.handler # "delete" =>
            ("Content-Type" \in DOMAIN hLast.sent /\ hLast.sent["Content-Type"] = "application/json")
        /\ \A k \in DOMAIN hLast.sent :
            Supplied(k) \/ (k = "Content-Type" /\ hLast.handler # "delete")

\* C8 witness: the caller, the constructor and the API key all supplied
\* X-API-Key and the per-request value was sent; the constructor alone
\* supplied Cookie and its value was sent.
C8_Witness ==
    /\ hLast.handler = "get"
    /\ hLast.apiKey # ""
    /\ "X-API-Key" \in DOMAIN hGlobal
    /\ "X-API-Key" \in DOMAIN hLast.reqHeaders
    /\ hLast.sent["X-API-Key"] = RequestValue("X-API-Key")
    /\ "Cookie" \in DOMAIN hGlobal
    /\ "Cookie" \notin DOMAIN hLast.reqHeaders
    /\ hLast.sent["Cookie"] = GlobalValue("Cookie")

\* The values of credential headers: API keys and session cookies, wherever
\* they were supplied.
CredentialValues ==
    ApiKeys \cup {RequestValue(k) : k \in {"X-API-Key", "Cookie"}}
            \cup {GlobalValue(k) : k \in {"X-API-Key", "Cookie"}}

\* C9. No log record holds the value of a credential header (API key or
\* session cookie), after any sequence of requests.
C9_NoCredentialInLogs == hLog \cap CredentialValues = {}

AllClosed(sessions) == \A i \in 1..Len(sessions) : sessions[i]

\* C10. Scoped session: once the `async with` block over an HttpClient or a
\* LimitlessClient has exited, normally or by an exception, and until the
\* client is used again, every session the client created is closed; at any
\* time only the current session can be open; and no close() /
\* close_session(), repeated or on a client without a session, raises.
C10_ScopedSession ==
    /\ hCtx \in {"exited", "exited_exc"} => (hCur # 0 /\ AllClosed(hSessions))
    /\ lCtx \in {"exited", "exited_exc"} => (lCur # 0 /\ AllClosed(lSessions))
    /\ \A i \in 1..Len(hSessions) : i # hCur => hSessions[i]
    /\ \A i \in 1..Len(lSessions) : i # lCur => lSessions[i]
    /\ hErr = ""
    /\ lErr = ""

\* C10 witness: both clients have left an `async with` block by an exception
\* (the HttpClient after a failed request inside it) and their sessions are
\* closed.
C10_Witness ==
    /\ hCtx = "exited_exc"
    /\ hLast.raised
    /\ hCur # 0
    /\ hSessions[hCur]
    /\ lCtx = "exited_exc"
    /\ lCur # 0
    /\ lSessions[lCur]

\* ------------------------------------------------------------------ claims about the orders package

\* What the claims call well-formed, stated on the values themselves.
AllDigits(x) == x.t = "str" /\ Len(x.s) >= 1 /\ \A i \in 1..Len(x.s) : x.s[i] \in DecDigits

WellFormedHex(x, n) ==
    /\ x.t = "str"
    /\ Len(x.s) = n + 2
    /\ x.s[1] = "0"
    /\ x.s[2] = "x"
    /\ \A i \in 3..(n + 2) : x.s[i] \in HexDigits

Real(x) == x.t \in {"int", "float"} /\ x.s = <<>>
NonNegativeInt(x) == x.t = "int" /\ x.m >= 0
Positive(x) == Real(x) /\ x.m > 0
InUnitInterval(x) ==
    /\ Real(x)
    /\ x.m >= 0
    /\ IF x.e >= 0 THEN x.m * Power(10, x.e) <= 1 ELSE x.m <= Power(10, 0 - x.e)

TokenIdAcceptable(t) == AllDigits(t) /\ t.s # <<"0">>

OptionalsAcceptable(a) ==
    /\ a.taker # PyNone => WellFormedHex(a.taker, 40)
    /\ a.expiration # PyNone => NonNegativeInt(a.expiration)
    /\ a.nonce # PyNone => NonNegativeInt(a.nonce)

Called(op) == vArgs.op = op /\ vResult.state # "pending"

\* C14. validate_gtc_order_args raises ValidationError exactly when tokenId
\* is empty, is "0" or is not all digits, a given taker is not a 0x-prefixed
\* 40-hex-digit address, a given expiration or nonce is negative or not an
\* integer, price is not numeric or outside [0,1], or size is not numeric or
\* <= 0; for every other input it returns.
C14_GtcValidation ==
    Called("validate_gtc_order_args") =>
        (vResult.state = "returned" <=>
            /\ TokenIdAcceptable(vArgs.token_id)
            /\ OptionalsAcceptable(vArgs)
            /\ InUnitInterval(vArgs.price)
            /\ Positive(vArgs.size))

AtMostTwoDecimals(x) == x.t = "int" \/ Shortest(x.m, x.e).e >= 0 - 2

\* C15. Given valid tokenId, taker, expiration and nonce,
\* validate_fok_order_args returns exactly for the makerAmounts that are
\* numeric, > 0 and have at most 2 decimal places, and raises for all others.
C15_FokPrecision ==
    (Called("validate_fok_order_args") /\ TokenIdAcceptable(vArgs.token_id) /\ OptionalsAcceptable(vArgs)) =>
        (vResult.state = "returned" <=>
            (Positive(vArgs.maker_amount) /\ AtMostTwoDecimals(vArgs.maker_amount)))

\* C16. Every order validate_unsigned_order accepts satisfies the
\* UnsignedOrder invariant: well-formed maker, signer and taker, positive
\* integer amounts, an all-digit tokenId other than "0", expiration >= 0,
\* salt > 0, nonce >= 0, feeRateBps >= 0, side 0 or 1, signatureType >= 0,
\* and a price in [0,1] when there is one.
C16_UnsignedOrderInvariant ==
    (Called("validate_unsigned_order") /\ vResult.state = "returned") =>
        LET o == vArgs.order
        IN  /\ \A f \in {"maker", "signer", "taker"} : WellFormedHex(o[f], 40)
            /\ \A f \in {"maker_amount", "taker_amount", "salt"} : o[f].t = "int" /\ o[f].m > 0
            /\ TokenIdAcceptable(o.token_id)
            /\ \A f \in {"expiration", "nonce", "fee_rate_bps", "signature_type"} : NonNegativeInt(o[f])
            /\ Real(o.side) /\ (o.side.m = 0 \/ Shortest(o.side.m, o.side.e) = [m |-> 1, e |-> 0])
            /\ o.price # PyNone => InUnitInterval(o.price)

\* C17. validate_signed_order accepts an order exactly when
\* validate_unsigned_order accepts it and its signature is a string of 132
\* characters, "0x" followed by 130 hex digits; otherwise it raises
\* ValidationError.
C17_SignedOrderShape ==
    Called("validate_signed_order") =>
        (vResult.state = "returned" <=>
            (validate_unsigned_order(vArgs.order) = "" /\ WellFormedHex(vArgs.order.signature, 130)))

\* C17 witness: an order with a good signature was accepted.
C17_Witness ==
    /\ Called("validate_signed_order")
    /\ vArgs.order = GoodOrder
    /\ vResult.state = "returned"

\* The positions where the signature differs from the good signature.
Changed(g) == {i \in 1..132 : g.s[i] # HexRun(130)[i]}

\* The order is GoodOrder with exactly one character of its signature changed.
SingleMutation ==
    /\ vArgs.order = [GoodOrder EXCEPT !.signature = vArgs.order.signature]
    /\ vArgs.order.signature.t = "str"
    /\ Len(vArgs.order.signature.s) = 132
    /\ Cardinality(Changed(vArgs.order.signature)) = 1

\* C18 as stated. Changing any single character of the signature of an
\* accepted signed order makes validate_signed_order fail.
C18_AnyMutationFails ==
    (Called("validate_signed_order") /\ SingleMutation) => vResult.state = "raised"

\* C18 as amended. Changing a single character of the signature of an
\* accepted signed order makes validate_signed_order fail when the change is
\* in the 0x prefix or puts a character that is not a hex digit.
C18_NonHexMutationFails ==
    (Called("validate_signed_order") /\ SingleMutation) =>
        \A i \in Changed(vArgs.order.signature) :
            (i <= 2 \/ vArgs.order.signature.s[i] \notin HexDigits) => vResult.state = "raised"

\* C18 witness: the last hex digit was replaced by a newline and the order
\* was rejected.
C18_Witness ==
    /\ Called("validate_signed_order")
    /\ SingleMutation
    /\ Changed(vArgs.order.signature) = {132}
    /\ vArgs.order.signature.s[132] = "\n"
    /\ vResult.state = "raised"

\* The multiples of the tick nearest to the price, by their distance.
IsNearestTick(r, price, tick) == r % tick = 0 /\ 2 * Abs(r - price) <= tick

BuildArgsAcceptable ==
    /\ TokenIdAcceptable(vArgs.token_id)
    /\ InUnitInterval(vArgs.price)
    /\ Positive(vArgs.size)

IsHalfUp(n, q, d) == 2 * d * n - d <= 2 * q /\ 2 * q < 2 * d * n + d

C29_RetrySuccess ==
    \A j \in 1..Len(events) :
        (events[j].type = "call" /\ events[j].ok) =>
            LET k == Len(CallsOf(events))
            IN  /\ j = Len(events)
                /\ wpc = "done"
                /\ outcome = Returned
                /\ k <= cfgMaxRetries + 1
                /\ Len(SleepsOf(events)) = k - 1
                /\ \A i \in 1..(j - 1) : events[i].type = "call" => ~events[i].ok

\* C29 witness: the third attempt (max_retries = 2) succeeded after two
\* rate-limited attempts and two waits.
C29_Witness ==
    /\ cfgMaxRetries = 2
    /\ Len(CallsOf(events)) = 3
    /\ Len(SleepsOf(events)) = 2
    /\ events[Len(events)].ok
    /\ events[1].err.status = 429
    /\ outcome = Returned

\* ------------------------------------------------------------------ claims about the shared argument checks

\* The call with every argument but one of token_id, taker, expiration and
\* nonce made good.
OnlyField(a, f) ==
    [token_id |-> IF f = "token_id" THEN a.token_id ELSE PyStr(<<"7">>),
     taker |-> IF f = "taker" THEN a.taker ELSE PyNone,
     expiration |-> IF f = "expiration" THEN a.expiration ELSE PyNone,
     nonce |-> IF f = "nonce" THEN a.nonce ELSE PyNone]

\* What checks(a) has to be when the four arguments are examined in the
\* order token_id, taker, expiration, nonce: the error of the first one
\* that is rejected on its own.
InOrder(checks(_), a) ==
    LET alone(f) == checks(OnlyField(a, f))
    IN  IF alone("token_id") # "" THEN alone("token_id")
        ELSE IF alone("taker") # "" THEN alone("taker")
        ELSE IF alone("expiration") # "" THEN alone("expiration")
        ELSE alone("nonce")

\* C30. validate_gtc_order_args and validate_fok_order_args apply the same
\* checks to tokenId, taker, expiration and nonce: on equal values of the
\* four one rejects iff the other does, with the same message; both examine
\* them in the order tokenId, taker, expiration, nonce; and both do so
\* before any check of price, size or amount.
C30_SameCommonChecks ==
    (Called("validate_gtc_order_args") \/ Called("validate_fok_order_args")) =>
        LET g == gtc_common_checks(vArgs)
            f == fok_common_checks(vArgs)
        IN  /\ g = f
            /\ g = InOrder(gtc_common_checks, vArgs)
            /\ f = InOrder(fok_common_checks, vArgs)
            /\ g # "" => vResult.error = g
            /\ vResult.error \in {"Price must be a valid number", "Price must be between 0 and 1",
                                  "Size must be a valid number", "Size must be positive",
                                  "Amount must be a valid number", "Amount must be positive",
                                  "Amount must have max 2 decimal places"} => g = ""

\* C30 witness: validate_fok_order_args, given a bad taker, a bad
\* expiration, a bad nonce and a bad amount, raised the taker's error.
C30_Witness ==
    /\ Called("validate_fok_order_args")
    /\ vArgs.token_id = PyStr(<<"7">>)
    /\ vArgs.taker = PyInt(0 - 1)
    /\ vArgs.expiration = PyInt(0 - 1)
    /\ vArgs.nonce = PyInt(0 - 1)
    /\ vArgs.maker_amount = PyFloat(0 - 5, 0)
    /\ vResult.error = "Invalid taker address"
    /\ gtc_common_checks(vArgs) = "Invalid taker address"

\* ------------------------------------------------------------------ claims about the credential of HttpClient

\* A step of get, post, post_with_response or delete.
RequestStep == hLast' # hLast

\* The request names X-API-Key itself, per request or in the headers given
\* to the constructor.
OwnApiKeyHeader(req) == "X-API-Key" \in (DOMAIN req.reqHeaders \cup DOMAIN hGlobal)

\* C26. Credential swap: a request made after set_api_key(k) carries
\* X-API-Key = k as its credential header, a request made after
\* clear_api_key() carries no X-API-Key derived from a credential (a
\* header named X-API-Key that the caller or the constructor supplied takes
\* its place, as for every header); set_api_key and clear_api_key leave the
\* session and the global additional headers alone, and requests go to the
\* same base URL.
C26_CredentialSwap ==
    [][/\ RequestStep =>
            /\ hCredOp # "" =>
                /\ "X-API-Key" \in DOMAIN hLast'.sent
                /\ ~OwnApiKeyHeader(hLast') => hLast'.sent["X-API-Key"] = hCredOp
            /\ hCredOp = "" =>
                /\ ~OwnApiKeyHeader(hLast') => "X-API-Key" \notin DOMAIN hLast'.sent
            /\ OwnApiKeyHeader(hLast') => hLast'.sent["X-API-Key"] \notin SwappedKeys
            /\ hLast'.url \in {GetUrl(p, ps) : p \in Paths, ps \in ParamLists}
            /\ UNCHANGED <<hApiKey, hCredOp, hGlobal>>
       /\ hCredOp' # hCredOp => UNCHANGED <<hSessions, hCur, hCtx, hGlobal, hLast>>]_vars

\* C26 witness: after set_api_key("key2") a request that names no
\* X-API-Key of its own carried X-API-Key = key2, and the next request
\* will be made after clear_api_key().
C26_Witness ==
    /\ hCredOp = ""
    /\ hLast.method # "none"
    /\ ~OwnApiKeyHeader(hLast)
    /\ hLast.apiKey = "key2"
    /\ hLast.sent["X-API-Key"] = "key2"
    /\ hCur # 0
    /\ ~hSessions[hCur]

\* ------------------------------------------------------------------ claims about the errors of LimitlessClient

\* The taxonomy: 429 is a RateLimit-kind error, 401 and 403 are
\* Authentication-kind errors, every other failure status a generic one.
ClassFor(status) ==
    IF status = 429 THEN "RateLimitError"
    ELSE IF status \in {401, 403} THEN "AuthenticationError"
    ELSE "LimitlessAPIError"

\* C27. login() and every authenticated operation of LimitlessClient raise
\* a RateLimit-kind error on status 429, an Authentication-kind error on
\* status 401 or 403, and a generic API error on every other failure
\* status.
C27_ErrorClasses ==
    (aRaised # 0 /\ aCall[1].req # "get_signing_message") => aRaisedCls = ClassFor(aRaised)

\* The GETs of the challenge endpoint in the last call.
IsChallengeGet(x) == x.req = "GET /auth/signing-message"

\* C28. When the challenge endpoint /auth/signing-message has never issued
\* a challenge and answers 429 to every request of a login(), the login
\* fails with a RateLimit-kind error of status 429 and sends no POST to
\* /auth/login.
C28_ThrottledChallenge ==
    (/\ Len(aCall) > 0
     /\ aCall[1].req = "login"
     /\ aIssued = 0
     /\ \A j \in 1..Len(aCall) : IsChallengeGet(aCall[j]) => aCall[j].status = 429) =>
        /\ aRaised = 429
        /\ aRaisedCls = "RateLimitError"
        /\ Len(SelectSeq(aCall, IsLoginPost)) = 0
        /\ aPosted = <<>>
        /\ auth_token = 0

\* C28 witness: a login met 429 on the first attempt and on both retries of
\* get_signing_message and raised.
C28_Witness ==
    /\ Len(aCall) > 0
    /\ aCall[1].req = "login"
    /\ aIssued = 0
    /\ Len(SelectSeq(aCall, IsChallengeGet)) = LcMaxRetries + 1
    /\ \A j \in 1..Len(aCall) : IsChallengeGet(aCall[j]) => aCall[j].status = 429
    /\ aRaised = 429

\* The preconditions of create_order's arguments, by order type.
CreateOrderPre(a) ==
    /\ TokenIdAcceptable(a.token_id)
    /\ OptionalsAcceptable(a)
    /\ IF a.op = "validate_gtc_order_args"
       THEN InUnitInterval(a.price) /\ Positive(a.size)
       ELSE Positive(a.maker_amount) /\ AtMostTwoDecimals(a.maker_amount)

RequestsOf(call) == {i \in 1..Len(ocNet) : ocNet[i].call = call}

\* C21. A create_order call whose arguments violate the GTC/FOK
\* preconditions has raised ValidationError and has issued no request: no
\* venue fetch, no profile fetch, no POST to the orders endpoint.
C21_ValidationBeforeNetwork ==
    \A c \in Callers :
        (ocTask[c].pc # "idle" /\ ~CreateOrderPre(ocTask[c].args)) =>
            /\ ocTask[c].pc = "raised"
            /\ ocTask[c].error = "ValidationError"
            /\ RequestsOf(ocTask[c].call) = {}

VenueFetches(slug) == {i \in 1..Len(ocNet) : ocNet[i].kind = "venue" /\ ocNet[i].slug = slug}

\* The venue fetches of a slug that are in flight or were answered with the venue.
LiveVenueFetches(slug) == {i \in VenueFetches(slug) : ocNet[i].answer # "failed"}

\* C22. For every slug at most one venue fetch is in flight or answered (a
\* further one follows only a failed one, never a resolved one); a caller
\* awaiting the venue awaits that fetch, and every caller past the venue
\* step uses the venue that fetch was answered with.
C22_VenueFetchedOnce ==
    \A s \in Slugs :
        /\ Cardinality(LiveVenueFetches(s)) <= 1
        /\ \A c \in Callers :
            ocTask[c].slug = s =>
                /\ ocTask[c].pc = "awaitVenue" => LiveVenueFetches(s) # {}
                /\ ocTask[c].pc \in {"awaitUser", "awaitPost", "returned"} =>
                    /\ ocTask[c].venue \in LiveVenueFetches(s)
                    /\ ocNet[ocTask[c].venue].answer = "ok"

\* Two calls for one slug interleaved: the first issued the only venue
\* fetch and has gone on with its answer, the second called while it was in
\* flight and still awaits it.
C22_Witness ==
    \E s \in Slugs, c1, c2 \in Callers :
        /\ c1 # c2 /\ ocTask[c1].slug = s /\ ocTask[c2].slug = s
        /\ Cardinality(VenueFetches(s)) = 1
        /\ ocTask[c1].pc \in {"awaitUser", "awaitPost"}
        /\ ocNet[ocTask[c1].venue].call = ocTask[c1].call
        /\ ocTask[c2].pc = "awaitVenue"

ReconnectOps == {"reconnect timer", "reconnected", "reconnect failed"}

\* C24. In every state disconnect() leaves the socket closed and no reconnect
\* pending, and a second disconnect() changes nothing; and while the client
\* is DISCONNECTED the socket stays closed and no reconnect attempt is made,
\* with auto_reconnect or without.
C24_DisconnectFinal ==
    /\ [](LET d == disconnect(WsNow)
          IN  /\ d.state = "disconnected" /\ d.socket = "closed" /\ d.reconnect = "idle"
              /\ disconnect(d) = d)
    /\ [][wsState = "disconnected" =>
            (wsSocket' = "closed" /\ wsReconnect' = "idle" /\ (wsLast' # wsLast => wsLast'.op \notin ReconnectOps))]_vars

\* disconnect() was called while an automatic reconnect was pending.
C24_Witness ==
    /\ wsCfg.auto_reconnect
    /\ wsLast.op = "disconnect"
    /\ wsLast.from = "reconnecting"
    /\ wsState = "disconnected"
    /\ wsReconnect = "idle"

ClaimedTransitions ==
    {<<"disconnected", "connecting">>, <<"connecting", "connected">>, <<"connected", "reconnecting">>,
     <<"reconnecting", "connected">>, <<"connected", "disconnected">>}

FurtherTransitions ==
    {<<"connecting", "reconnecting">>, <<"connecting", "error">>, <<"error", "connecting">>,
     <<"connecting", "disconnected">>, <<"reconnecting", "disconnected">>, <<"error", "disconnected">>}

APIErrorKinds == {"APIError", "RateLimitError", "AuthenticationError"}

\* C31. get, post and delete return exactly for the responses with status
\* below 400, and for every other response they raise an error of an
\* APIError kind.
C31_ReturnOrRaise ==
    hLast.handler \in {"get", "post", "delete"} =>
        /\ ~hLast.raised <=> hLast.status < 400
        /\ hLast.raised => hLast.error.cls \in APIErrorKinds

\* C34. Whatever the delays list, an error the wrapper raises is the error
\* of one of the attempts of the wrapped operation.
C34_OnlyOperationErrors ==
    (wpc = "done" /\ outcome.kind = "raise") =>
        \E i \in 1..Len(events) : IsCall(events[i]) /\ ~events[i].ok /\ outcome.err = events[i].err
\* ------------------------------------------------------------------ claims about the login of LimitlessClient

\* The token in the Authorization header of the client's live session.
Authorization == IF lCur = 0 THEN 0 ELSE lHeaders[lCur]

LoginAnswered201 ==
    \E i \in 1..Len(aCall) : aCall[i].req = "POST /auth/login" /\ aCall[i].status = 201

\* C32. A call sets auth_token and the session's Authorization header only
\* when the server answered 201 to its login POST: then both hold the token
\* of that login; a call whose login failed (another status, or no challenge
\* fetched) leaves auth_token as it was and writes no header of any session.
C32_LoginSetsOnlyOn201 ==
    [][/\ LoginAnswered201' /\ aCall' # aCall =>
            /\ auth_token' # 0
            /\ Authorization' = auth_token'
       /\ ~LoginAnswered201' =>
            /\ auth_token' = auth_token
            /\ lHeaders' \in {lHeaders, Append(lHeaders, 0)}]_vars

\* A login whose POST was answered with an error, or that fetched no
\* challenge, on a client that already held a token and a header.
C32_Witness ==
    /\ auth_token # 0
    /\ Authorization = auth_token
    /\ aRaised # 0
    /\ \E i \in 1..Len(aCall) : aCall[i].req = "login"
    /\ ~LoginAnswered201

\* The method the last call entered, and the places of its trace.
CalledOp == IF aCall = <<>> THEN "" ELSE aCall[1].req
LoginRequests == {"login", "GET /auth/signing-message", "POST /auth/login"}

\* C33. In every call of an authenticated method, each request of the method
\* itself comes after a login POST answered 201 in the same call when the
\* call began with auth_token unset, so a call whose logins all failed sends
\* no request of its own; a call that began with auth_token set makes no
\* login request at all.
C33_LoginBeforeRequest ==
    [][(authVars' # authVars /\ CalledOp' \in AuthenticatedOps) =>
        /\ auth_token = 0 =>
                \A j \in 1..Len(aCall') :
                    aCall'[j].req = RequestOf(CalledOp') =>
                        \E i \in 1..(j - 1) : aCall'[i].req = "POST /auth/login" /\ aCall'[i].status = 201
        /\ auth_token # 0 =>
                \A j \in 1..Len(aCall') : aCall'[j].req \notin LoginRequests]_vars

\* An authenticated call on a client without a token whose login was
\* refused on every attempt: it raised and sent no request of its own.
C33_Witness ==
    /\ CalledOp \in AuthenticatedOps
    /\ auth_token = 0
    /\ aRaised # 0
    /\ \E i \in 1..Len(aCall) : aCall[i].req = "POST /auth/login" /\ aCall[i].status # 201
    /\ \A j \in 1..Len(aCall) : aCall[j].req # RequestOf(CalledOp)

\* C35. Whenever auth_token is set and the client has an open session, that
\* session carries the Authorization header of auth_token, also when the
\* session was closed and created again after the login.
C35_BearerOnLiveSession ==
    (auth_token # 0 /\ lCur # 0 /\ ~lSessions[lCur]) => lHeaders[lCur] = auth_token

ChallengeGets == SelectSeq(aCall, LAMBDA d : d.req = "GET /auth/signing-message")

\* C37. One call of an authenticated method under its retry wrapper makes at
\* most max_retries + 1 requests to /auth/signing-message, however the
\* server spreads its 429 answers.
C37_ChallengeRequestsBounded ==
    CalledOp \in AuthenticatedOps => Len(ChallengeGets) <= LcMaxRetries + 1

\* ------------------------------------------------------------------ claims about concurrent callers

\* C36. Authenticated methods that run concurrently on a client without a
\* token share one login: no two of them have each a POST to /auth/login
\* awaiting its answer.
C36_OneLoginPost ==
    Cardinality({t \in Callers : aTask[t].pc = "login"}) <= 1

\* C38. Concurrent invocations of one wrapped function have retry budgets of
\* their own: each makes at most max_retries + 1 calls, an invocation that
\* gives up after rate limits alone has made exactly max_retries + 1,
\* whatever the others did, and no step changes max_retries or delays.
C38_IndependentBudgets ==
    /\ [](\A t \in Callers :
            /\ rTask[t].calls <= cfgMaxRetries + 1
            /\ rTask[t].pc = "exhausted" => rTask[t].calls = cfgMaxRetries + 1)
    /\ [][cfgMaxRetries' = cfgMaxRetries /\ cfgDelays' = cfgDelays]_vars

\* Both invocations have used their whole budget, each on retries of its own.
C38_Witness ==
    /\ cfgMaxRetries >= 1
    /\ \A t \in Callers : rTask[t].pc = "exhausted" /\ rTask[t].calls = cfgMaxRetries + 1

OpenSessions == {i \in 1..Len(hSessions) : ~hSessions[i]}

\* C39. However get, post, delete and close of one HttpClient interleave, at
\* most one of its sessions is open at any time, and a step gives the client
\* a new session only when it had none or its current one was closed: an
\* open session is never replaced.
C39_OneOpenSession ==
    /\ [](Cardinality(OpenSessions) <= 1)
    /\ [][(hCur' # hCur \/ Len(hSessions') > Len(hSessions)) =>
            /\ hCur = 0 \/ hSessions[hCur]
            /\ hCur' = Len(hSessions) + 1
            /\ hSessions' = Append(hSessions, FALSE)]_vars

\* A request runs on a new session while a close of the previous session
\* is still awaited.
C39_Witness ==
    \E t, u \in Callers :
        /\ hTask[t].pc = "closing"
        /\ hTask[u].pc \in HttpMethods
        /\ hTask[u].n # hTask[t].n
        /\ OpenSessions = {hTask[u].n}

====
